---------------------------- MODULE Spec2Model ----------------------------
(***************************************************************************)
(* A model of the EDIFACT example programs: the segment parser and         *)
(* serializer, the release-character escaping helpers, the service-segment *)
(* information extraction, the flat and keyed converters, and the          *)
(* MessageDetector handler registry with its read/write lock.              *)
(*                                                                         *)
(* Go strings are modelled as sequences of one-character strings, so that  *)
(* strings.Split, strings.Join, strings.ReplaceAll and strings.TrimSuffix  *)
(* are computed character by character as the Go library computes them.    *)
(***************************************************************************)
EXTENDS Integers, Sequences, FiniteSets

VARIABLES
    raw,        \* the input string handed to a parser or to the escaper
    step,       \* the position in the pipeline that is being exercised
    seg,        \* *EDIFACTSegment returned by the first ParseSegment (or built)
    text,       \* the string returned by EDIFACTSegment.ToString
    seg2,       \* *EDIFACTSegment returned by parsing text again
    esc,        \* the string returned by EscapeSpecialCharacters
    unesc,      \* the parsed elements after UnescapeSpecialCharacters
    err,        \* the error returned by the latest ParseSegment
    handlers,   \* MessageDetector.handlers: message type -> registered handler
    mu,         \* MessageDetector.mu: the goroutine holding Lock, those holding RLock
    pc,         \* where each goroutine stands in RegisterHandler or DetectAndRoute
    args,       \* the arguments of each goroutine's current call
    local,      \* handler, exists := md.handlers[message.MessageType], per goroutine
    ret,        \* the error DetectAndRoute returned to each goroutine
    invoked,    \* the handlers whose Process ran during each goroutine's current call
    regLog,     \* history: the registrations in the order they were stored
    calls,      \* history: the number of calls started
    rawContent, \* the raw message handed to a message parser
    mstep,      \* the position in the message pipeline
    msg,        \* *EDIFACTMessage returned by ParseEDIFACTMessage (lesson 6)
    tree,       \* *model.Message handed to the adapters' Handle
    flat,       \* *SimpleAdapterResult returned by SimpleAdapter.Handle
    nested,     \* *CustomMessage returned by CustomHandler.Handle
    serviceSegs,\* ServiceSegmentResult.ServiceSegs: tag -> *ServiceSegmentInfo
    result,     \* the rest of the *ServiceSegmentResult ProcessMessage returned
    runs,       \* history: the message before and after, and the result, of every ProcessMessage
    findings,   \* the []ValidationError each SyntaxValidator rule returned
    now,        \* the clock read by time.Now()
    rh,         \* *RetryHandler: maxRetries, baseDelay, maxDelay, backoffFactor
    rpc,        \* where ExecuteWithRetry stands
    attempt,    \* the loop variable of ExecuteWithRetry
    lastErr,    \* var lastErr error
    rret,       \* the error ExecuteWithRetry returned
    opLog,      \* history: what each invocation of the operation returned
    slept,      \* history: the delays handed to time.Sleep
    cb,         \* *CircuitBreaker: failureThreshold, timeout, state, failureCount, lastFailureTime
    cbmu,       \* CircuitBreaker.mu: the goroutines holding RLock
    bpc,        \* where each goroutine stands in Execute
    bret,       \* the error Execute returned to each goroutine
    obs,        \* history: what each goroutine's current Execute saw and did
    transitions,\* history: every change of cb.state, in order
    executes,   \* history: the number of Execute calls started
    clock,      \* the time time.Now() and time.Since read
    rl,         \* *RateLimiter: tokens, capacity, rate, lastRefill
    rlNow,      \* the time time.Now() reads, in ticks since NewRateLimiter
    allowLog,   \* history: the tokens after the refill and after the call, and the result, of every Allow
    queue,      \* MessageQueue.queue: the buffered channel's contents, head first
    deadLetter, \* MessageQueue.deadLetter: the buffered channel's contents, head first
    retries,    \* QueueMessage.Retries of every message
    wpc,        \* where each worker goroutine stands
    wmsg,       \* the message each worker holds
    trail,      \* history: what happened to every message, in order
    sent,       \* history: the number of Send calls so far
    lastSend,   \* history: the queue before and after, and the error, of the latest Send
    cp,         \* *ConcurrentProcessor: workers (the channels are jobQueue and resultChan)
    jobs,       \* len(messages) of the Process call
    jobQueue,   \* ConcurrentProcessor.jobQueue: the job IDs in the channel, head first
    jqClosed,   \* whether close(cp.jobQueue) has run
    resultChan, \* ConcurrentProcessor.resultChan: the results in the channel, head first
    ppc,        \* where Process stands
    submitted,  \* the loop variable i of the submit loop
    results,    \* the slice Process collects into and returns
    cwpc,       \* where each worker goroutine stands
    cjob,       \* the job each worker holds
    mc,         \* *MessageCache: ttl (the map is cache)
    cache,      \* MessageCache.cache: key -> *CachedMessage, <<>> where the key is absent
    mcNow,      \* the time time.Now() reads
    lastSet,    \* history: the segments and the time of the latest Set of every key
    lastGet     \* history: the key, the time and what the latest Get returned

textVars == <<raw, step, seg, text, seg2, esc, unesc, err>>

dispatchVars == <<handlers, mu, pc, args, local, ret, invoked, regLog, calls>>

messageVars ==
    <<rawContent, mstep, msg, tree, flat, nested, serviceSegs, result, runs, findings, now>>

retryVars == <<rh, rpc, attempt, lastErr, rret, opLog, slept>>

breakerVars == <<cb, cbmu, bpc, bret, obs, transitions, executes, clock>>

limiterVars == <<rl, rlNow, allowLog>>

queueVars == <<queue, deadLetter, retries, wpc, wmsg, trail, sent, lastSend>>

processorVars == <<cp, jobs, jobQueue, jqClosed, resultChan, ppc, submitted, results, cwpc, cjob>>

cacheVars == <<mc, cache, mcNow, lastSet, lastGet>>

vars == <<textVars, dispatchVars, messageVars, retryVars, breakerVars, limiterVars, queueVars, processorVars, cacheVars>>

\* What the steps of one component leave alone.
outsideText == <<dispatchVars, messageVars, retryVars, breakerVars, limiterVars, queueVars, processorVars, cacheVars>>
outsideDispatch == <<textVars, messageVars, retryVars, breakerVars, limiterVars, queueVars, processorVars, cacheVars>>
outsideMessage == <<textVars, dispatchVars, retryVars, breakerVars, limiterVars, queueVars, processorVars, cacheVars>>
outsideRetry == <<textVars, dispatchVars, messageVars, breakerVars, limiterVars, queueVars, processorVars, cacheVars>>
outsideBreaker == <<textVars, dispatchVars, messageVars, retryVars, limiterVars, queueVars, processorVars, cacheVars>>
outsideLimiter == <<textVars, dispatchVars, messageVars, retryVars, breakerVars, queueVars, processorVars, cacheVars>>
outsideQueue == <<textVars, dispatchVars, messageVars, retryVars, breakerVars, limiterVars, processorVars, cacheVars>>
outsideProcessor == <<textVars, dispatchVars, messageVars, retryVars, breakerVars, limiterVars, queueVars, cacheVars>>
outsideCache == <<textVars, dispatchVars, messageVars, retryVars, breakerVars, limiterVars, queueVars, processorVars>>

-----------------------------------------------------------------------------
(* Bounds of the model.                                                    *)

\* Longest generated input string (the documented examples are added to these).
MaxLen == 3

\* Calls of ProcessMessage on one message.
MaxRuns == 2

\* Segments between the header and the trailer of a generated message.
MaxBody == 2

\* Goroutines calling the MessageDetector concurrently.
NumProcs == 2

\* Calls (RegisterHandler or DetectAndRoute) started in one behaviour.
MaxCalls == 3

\* Longest generated raw message (the documented examples are added to these).
MaxMsgLen == 4

\* Clock ticks in one behaviour of the message pipeline.
MaxTime == 1

\* Greatest maxRetries a RetryHandler is constructed with.
MaxRetries == 3

\* Greatest baseDelay and maxDelay a RetryHandler is constructed with.
MaxDelay == 3

\* Goroutines calling Execute on one CircuitBreaker.
NumCallers == 2

\* Execute calls started in one behaviour.
MaxExecutes == 3

\* Greatest failureThreshold a CircuitBreaker is constructed with.
MaxThreshold == 2

\* Greatest timeout a CircuitBreaker is constructed with.
MaxTimeout == 1

\* Clock ticks in one behaviour of the circuit breaker.
MaxClock == 2

\* Greatest capacity a RateLimiter is constructed with.
MaxCapacity == 2

\* Greatest rate a RateLimiter is constructed with.
MaxRate == 2

\* Allow calls in one behaviour.
MaxAllows == 4

\* Clock ticks in one behaviour of the rate limiter.
MaxTicks == 5

\* Worker goroutines of one MessageQueue.
NumWorkers == 1

\* Capacity of the queue channel.
QueueCap == 2

\* Capacity of the dead-letter channel.
DeadCap == 1

\* Send calls in one behaviour, each with a new message.
MaxMessages == 3

\* Greatest worker count a ConcurrentProcessor is constructed with.
MaxProcWorkers == 2

\* Greatest number of messages handed to Process.
MaxJobs == 6

\* Greatest ttl a MessageCache is constructed with.
MaxTtl == 2

\* Clock ticks in one behaviour of the cache.
MaxCacheTime == 3

\* Greatest segment count stored in the cache.
MaxSegments == 2

-----------------------------------------------------------------------------
(* The standard delimiters every example program configures.               *)

SegmentTerminator == "'"
DataElementSeparator == "+"
ComponentSeparator == ":"
ReleaseCharacter == "?"

\* The characters inputs are drawn from: one data character and the delimiters.
Chars == {"a", DataElementSeparator, ComponentSeparator, SegmentTerminator, ReleaseCharacter}

RECURSIVE StringsUpTo(_)
StringsUpTo(n) ==
    IF n = 0 THEN {<<>>}
    ELSE LET shorter == StringsUpTo(n - 1)
         IN  shorter \cup {Append(s, c) : s \in {t \in shorter : Len(t) = n - 1}, c \in Chars}

-----------------------------------------------------------------------------
(* Go's strings package, as the programs call it.                           *)

\* strings.Index for a one-character separator: 0 when absent.
IndexOf(s, c) ==
    IF \E i \in 1..Len(s) : s[i] = c
    THEN CHOOSE i \in 1..Len(s) : s[i] = c /\ \A j \in 1..(i - 1) : s[j] # c
    ELSE 0

\* strings.Contains for a one-character substring.
Contains(s, c) == IndexOf(s, c) # 0

\* strings.Split(s, sep) for a one-character sep: every separator splits, empty
\* pieces are kept, and a string without the separator is returned whole.
RECURSIVE Split(_, _)
Split(s, sep) ==
    LET i == IndexOf(s, sep)
    IN  IF i = 0 THEN <<s>>
        ELSE <<SubSeq(s, 1, i - 1)>> \o Split(SubSeq(s, i + 1, Len(s)), sep)

\* strings.Join(parts, sep) for a one-character sep.
RECURSIVE Join(_, _)
Join(parts, sep) ==
    IF Len(parts) = 0 THEN <<>>
    ELSE IF Len(parts) = 1 THEN parts[1]
    ELSE parts[1] \o <<sep>> \o Join(Tail(parts), sep)

\* strings.TrimSuffix(s, suffix) for a one-character suffix.
TrimSuffix(s, c) ==
    IF Len(s) > 0 /\ s[Len(s)] = c THEN SubSeq(s, 1, Len(s) - 1) ELSE s

\* strings.ReplaceAll(s, old, new): the non-overlapping occurrences of the
\* non-empty string old, found left to right, are each replaced by new.
RECURSIVE ReplaceAll(_, _, _)
ReplaceAll(s, old, new) ==
    IF Len(s) < Len(old) THEN s
    ELSE IF SubSeq(s, 1, Len(old)) = old
         THEN new \o ReplaceAll(SubSeq(s, Len(old) + 1, Len(s)), old, new)
         ELSE <<s[1]>> \o ReplaceAll(Tail(s), old, new)

-----------------------------------------------------------------------------
(* EDIFACTSegment and its elements (lesson 2 of the fundamentals course).  *)

NewEDIFACTSegment(tag) == [Tag |-> tag, Elements |-> <<>>]

\* An AddElement that splits every value, a simple one into one component.
AddElementSplittingAll(s, value) ==
    [s EXCEPT !.Elements =
        Append(@, [Position    |-> Len(s.Elements) + 1,
                   Value       |-> value,
                   IsEmpty     |-> value = <<>>,
                   IsComposite |-> Contains(value, ComponentSeparator),
                   Components  |-> Split(value, ComponentSeparator)])]

\* AddElement: the element keeps its whole value; it is composite when the
\* value holds a component separator, and only then are Components filled.
AddElement(s, value) ==
    LET isComposite == Contains(value, ComponentSeparator)
        element == [Position    |-> Len(s.Elements) + 1,
                    Value       |-> value,
                    IsEmpty     |-> value = <<>>,
                    IsComposite |-> isComposite,
                    Components  |-> IF isComposite
                                    THEN Split(value, ComponentSeparator)
                                    ELSE <<>>]
    IN  [s EXCEPT !.Elements = Append(@, element)]

RECURSIVE AddElements(_, _, _)
AddElements(s, parts, i) ==
    IF i > Len(parts) THEN s
    ELSE AddElements(AddElement(s, parts[i]), parts, i + 1)

\* A parser that drops empty pieces, as strings.FieldsFunc would.
ParseSegmentDroppingEmpty(segmentStr) ==
    LET parts == Split(TrimSuffix(segmentStr, SegmentTerminator), DataElementSeparator)
        kept  == SelectSeq(Tail(parts), LAMBDA p : p # <<>>)
    IN  AddElements(NewEDIFACTSegment(parts[1]), kept, 1)

\* Go's nil error.
Nil == "nil"

\* The error ParseSegment returns next to the segment: "empty segment" when
\* strings.Split returns no piece.
ParseSegmentError(segmentStr) ==
    LET parts == Split(TrimSuffix(segmentStr, SegmentTerminator), DataElementSeparator)
    IN  IF Len(parts) = 0 THEN "empty segment" ELSE Nil

\* ParseSegment: one trailing terminator is removed, the rest is split at
\* every data element separator; the first piece is the tag.  Split never
\* returns an empty list, so the "empty segment" error is never returned.
ParseSegment(segmentStr) ==
    LET parts == Split(TrimSuffix(segmentStr, SegmentTerminator), DataElementSeparator)
    IN  AddElements(NewEDIFACTSegment(parts[1]), parts, 2)

ElementValues(s) == [i \in 1..Len(s.Elements) |-> s.Elements[i].Value]

\* A serializer that leaves empty elements out.
ToStringSkippingEmpty(s) ==
    Join(<<s.Tag>> \o SelectSeq(ElementValues(s), LAMBDA v : v # <<>>),
         DataElementSeparator) \o <<SegmentTerminator>>

\* EDIFACTSegment.ToString: tag and element values joined by the data
\* element separator, followed by the segment terminator.
ToString(s) ==
    Join(<<s.Tag>> \o ElementValues(s), DataElementSeparator) \o <<SegmentTerminator>>

\* ParseCompositeElement and CompositeElement.ToString (lesson 3).
ParseCompositeElement(elementStr) ==
    LET components == Split(elementStr, ComponentSeparator)
    IN  [Components |-> components,
         Qualifier  |-> IF Len(components) >= 1 THEN components[1] ELSE <<>>,
         Value      |-> IF Len(components) >= 2 THEN components[2] ELSE <<>>,
         Format     |-> IF Len(components) >= 3 THEN components[3] ELSE <<>>]

CompositeToString(c) == Join(c.Components, ComponentSeparator)

\* EscapeSpecialCharacters: four successive ReplaceAll passes.
EscapeSpecialCharacters(data) ==
    LET r1 == ReplaceAll(data, <<ReleaseCharacter>>, <<ReleaseCharacter, ReleaseCharacter>>)
        r2 == ReplaceAll(r1, <<DataElementSeparator>>, <<ReleaseCharacter, DataElementSeparator>>)
        r3 == ReplaceAll(r2, <<ComponentSeparator>>, <<ReleaseCharacter, ComponentSeparator>>)
    IN  ReplaceAll(r3, <<SegmentTerminator>>, <<ReleaseCharacter, SegmentTerminator>>)

\* UnescapeSpecialCharacters: the four passes in the opposite order.
UnescapeSpecialCharacters(data) ==
    LET r1 == ReplaceAll(data, <<ReleaseCharacter, SegmentTerminator>>, <<SegmentTerminator>>)
        r2 == ReplaceAll(r1, <<ReleaseCharacter, ComponentSeparator>>, <<ComponentSeparator>>)
        r3 == ReplaceAll(r2, <<ReleaseCharacter, DataElementSeparator>>, <<DataElementSeparator>>)
    IN  ReplaceAll(r3, <<ReleaseCharacter, ReleaseCharacter>>, <<ReleaseCharacter>>)

-----------------------------------------------------------------------------
(* Documented inputs.                                                      *)

\* NAD+BY+++NAME' (the example of the specification; lesson 1 parses NAD+BY+++ACME CORP')
NADExample == <<"N","A","D","+","B","Y","+","+","+","N","A","M","E","'">>

\* UNH+1+INVOIC:D:97A:UN'
UNHExample ==
    <<"U","N","H","+","1","+","I","N","V","O","I","C",":","D",":","9","7","A",":","U","N","'">>

FTXTag == <<"F","T","X">>

\* UNH+1+INVOIC:D:93A:UN'BGM+380+INV1'UNT+2+1'
InvoiceExample ==
    <<"U","N","H","+","1","+","I","N","V","O","I","C",":","D",":","9","3","A",":","U","N","'">>
    \o <<"B","G","M","+","3","8","0","+","I","N","V","1","'">>
    \o <<"U","N","T","+","2","+","1","'">>

NoSegment == NewEDIFACTSegment(<<>>)

-----------------------------------------------------------------------------
(* The segment pipeline: parse, serialize, parse again; and escape, build, *)
(* serialize, parse, unescape (examples 3 and 7 of lesson 1).              *)

TextInputs == StringsUpTo(MaxLen) \cup {NADExample, UNHExample}

TextInit ==
    /\ raw \in TextInputs
    /\ step = "input"
    /\ seg = NoSegment
    /\ text = <<>>
    /\ seg2 = NoSegment
    /\ esc = <<>>
    /\ unesc = <<>>
    /\ err = Nil

TextIdle ==
    /\ raw = <<>>
    /\ step = "idle"
    /\ seg = NoSegment
    /\ text = <<>>
    /\ seg2 = NoSegment
    /\ esc = <<>>
    /\ unesc = <<>>
    /\ err = Nil

\* parsedSegment, err := ParseSegment(segmentStr, delimiters)
ParseStep ==
    /\ step = "input"
    /\ seg' = ParseSegment(raw)
    /\ err' = ParseSegmentError(raw)
    /\ step' = "parsed"
    /\ UNCHANGED <<raw, text, seg2, esc, unesc, outsideText>>

\* parsedSegment.ToString()
ToStringStep ==
    /\ step = "parsed"
    /\ text' = ToString(seg)
    /\ step' = "serialized"
    /\ UNCHANGED <<raw, seg, seg2, esc, unesc, err, outsideText>>

\* the serialized segment is parsed again
ReparseStep ==
    /\ step = "serialized"
    /\ seg2' = ParseSegment(text)
    /\ err' = ParseSegmentError(text)
    /\ step' = "reparsed"
    /\ UNCHANGED <<raw, seg, text, esc, unesc, outsideText>>

\* escapedText := EscapeSpecialCharacters(data, delimiters)
EscapeStep ==
    /\ step = "input"
    /\ esc' = EscapeSpecialCharacters(raw)
    /\ step' = "escaped"
    /\ UNCHANGED <<raw, seg, text, seg2, unesc, err, outsideText>>

\* complexSegment.AddElement(escapedText); complexSegment.ToString()
BuildStep ==
    /\ step = "escaped"
    /\ seg' = AddElement(NewEDIFACTSegment(FTXTag), esc)
    /\ text' = ToString(seg')
    /\ step' = "built"
    /\ UNCHANGED <<raw, seg2, esc, unesc, err, outsideText>>

\* the built segment is tokenized by ParseSegment
TokenizeStep ==
    /\ step = "built"
    /\ seg2' = ParseSegment(text)
    /\ err' = ParseSegmentError(text)
    /\ step' = "tokenized"
    /\ UNCHANGED <<raw, seg, text, esc, unesc, outsideText>>

\* every element of the tokenized segment is unescaped
UnescapeStep ==
    /\ step = "tokenized"
    /\ unesc' = [i \in 1..Len(seg2.Elements) |->
                    UnescapeSpecialCharacters(seg2.Elements[i].Value)]
    /\ step' = "unescaped"
    /\ UNCHANGED <<raw, seg, text, seg2, esc, err, outsideText>>

TextNext ==
    \/ ParseStep
    \/ ToStringStep
    \/ ReparseStep
    \/ EscapeStep
    \/ BuildStep
    \/ TokenizeStep
    \/ UnescapeStep

-----------------------------------------------------------------------------
(* MessageDetector: the handler registry of lesson 2 of the advanced       *)
(* course, called from several goroutines.                                 *)

Procs == 1..NumProcs

NoProc == 0
NoHandler == "none"

\* The keys handlers are registered under and messages are typed with.
MsgTypes == {"INVOIC", "ORDERS"}

\* The registrable handlers, and the detector's fallback.
Handlers == {"InvoiceHandler", "OrderHandler"}
fallback == "GenericHandler"

\* A parsed message, as far as the handlers read it: its type and the document
\* number of its BGM segment (empty when the segment or the element is missing).
Messages == [MessageType : MsgTypes, Number : {"", "N1"}]

NoArgs == [op |-> "none", msgType |-> "", handler |-> NoHandler,
           message |-> [MessageType |-> "", Number |-> ""]]
\* The locals of DetectAndRoute, with two history fields: the number of
\* registrations stored when the call started and when the map was read.
NoLocal == [handler |-> NoHandler, exists |-> FALSE, seenAtCall |-> 0, seenAtRead |-> 0]

\* MessageHandler.Process of the three handlers: the invoice and the order
\* handler fail validation when the document number is empty (their Save and
\* Notify steps return nil); the generic handler always returns nil.
Process(h, message) ==
    CASE h = "InvoiceHandler" ->
            IF message.Number = ""
            THEN "validation failed: invoice number is required" ELSE Nil
      [] h = "OrderHandler" ->
            IF message.Number = ""
            THEN "validation failed: order number is required" ELSE Nil
      [] OTHER -> Nil

\* A registration that keeps the handler already stored under the key.
RegisteredKeepingFirst(h, msgType, handler) ==
    IF h[msgType] # NoHandler THEN h ELSE [h EXCEPT ![msgType] = handler]

\* md.handlers[msgType] = handler
Registered(h, msgType, handler) == [h EXCEPT ![msgType] = handler]

\* sync.RWMutex: Lock waits for the writer and all readers to be gone.
CanLockUnguarded(m) == TRUE

CanLock(m) == m.writer = NoProc /\ m.readers = {}

\* sync.RWMutex: RLock waits for the writer to be gone.
CanRLock(m) == m.writer = NoProc

\* handler, exists := md.handlers[message.MessageType]
Lookup(h, msgType) == [handler |-> h[msgType], exists |-> h[msgType] # NoHandler]

\* A routing that falls through to the fallback when the selected handler fails.
RouteFallingThrough(l, message) ==
    IF l.exists /\ Process(l.handler, message) # Nil
    THEN [invoked |-> <<l.handler, fallback>>, result |-> Process(fallback, message)]
    ELSE IF l.exists
         THEN [invoked |-> <<l.handler>>, result |-> Process(l.handler, message)]
         ELSE [invoked |-> <<fallback>>, result |-> Process(fallback, message)]

\* A routing that rejects a message no handler is registered for.
RouteRejectingUnknown(l, message) ==
    IF l.exists
    THEN [invoked |-> <<l.handler>>, result |-> Process(l.handler, message)]
    ELSE [invoked |-> <<>>, result |-> "no handler registered"]

\* if exists { return handler.Process(message) }; return md.fallback.Process(message)
Route(l, message) ==
    IF l.exists
    THEN [invoked |-> <<l.handler>>, result |-> Process(l.handler, message)]
    ELSE [invoked |-> <<fallback>>, result |-> Process(fallback, message)]

\* NewMessageDetector: an empty map, the generic fallback, a free lock.
DispatchInit ==
    /\ handlers = [t \in MsgTypes |-> NoHandler]
    /\ mu = [writer |-> NoProc, readers |-> {}]
    /\ pc = [p \in Procs |-> "idle"]
    /\ args = [p \in Procs |-> NoArgs]
    /\ local = [p \in Procs |-> NoLocal]
    /\ ret = [p \in Procs |-> Nil]
    /\ invoked = [p \in Procs |-> <<>>]
    /\ regLog = <<>>
    /\ calls = 0

AtRest(p) == pc[p] \in {"idle", "det_done"}

\* a goroutine calls detector.RegisterHandler(msgType, handler)
CallRegisterHandler(p) ==
    /\ AtRest(p)
    /\ calls < MaxCalls
    /\ \E t \in MsgTypes, h \in Handlers :
          args' = [args EXCEPT ![p] = [NoArgs EXCEPT !.op = "register",
                                                     !.msgType = t, !.handler = h]]
    /\ pc' = [pc EXCEPT ![p] = "reg_lock"]
    /\ local' = [local EXCEPT ![p] = NoLocal]
    /\ ret' = [ret EXCEPT ![p] = Nil]
    /\ invoked' = [invoked EXCEPT ![p] = <<>>]
    /\ calls' = calls + 1
    /\ UNCHANGED <<handlers, mu, regLog, outsideDispatch>>

\* md.mu.Lock()
RegLock(p) ==
    /\ pc[p] = "reg_lock"
    /\ CanLock(mu)
    /\ mu' = [mu EXCEPT !.writer = p]
    /\ pc' = [pc EXCEPT ![p] = "reg_store"]
    /\ UNCHANGED <<handlers, args, local, ret, invoked, regLog, calls, outsideDispatch>>

\* md.handlers[msgType] = handler
RegStore(p) ==
    /\ pc[p] = "reg_store"
    /\ handlers' = Registered(handlers, args[p].msgType, args[p].handler)
    /\ regLog' = Append(regLog, [msgType |-> args[p].msgType, handler |-> args[p].handler])
    /\ pc' = [pc EXCEPT ![p] = "reg_unlock"]
    /\ UNCHANGED <<mu, args, local, ret, invoked, calls, outsideDispatch>>

\* defer md.mu.Unlock()
RegUnlock(p) ==
    /\ pc[p] = "reg_unlock"
    /\ mu' = [mu EXCEPT !.writer = NoProc]
    /\ pc' = [pc EXCEPT ![p] = "idle"]
    /\ UNCHANGED <<handlers, args, local, ret, invoked, regLog, calls, outsideDispatch>>

\* a goroutine calls detector.DetectAndRoute(message)
CallDetectAndRoute(p) ==
    /\ AtRest(p)
    /\ calls < MaxCalls
    /\ \E m \in Messages :
          args' = [args EXCEPT ![p] = [NoArgs EXCEPT !.op = "detect", !.message = m]]
    /\ pc' = [pc EXCEPT ![p] = "det_rlock"]
    /\ local' = [local EXCEPT ![p] = [NoLocal EXCEPT !.seenAtCall = Len(regLog)]]
    /\ ret' = [ret EXCEPT ![p] = Nil]
    /\ invoked' = [invoked EXCEPT ![p] = <<>>]
    /\ calls' = calls + 1
    /\ UNCHANGED <<handlers, mu, regLog, outsideDispatch>>

\* md.mu.RLock()
DetRLock(p) ==
    /\ pc[p] = "det_rlock"
    /\ CanRLock(mu)
    /\ mu' = [mu EXCEPT !.readers = @ \cup {p}]
    /\ pc' = [pc EXCEPT ![p] = "det_read"]
    /\ UNCHANGED <<handlers, args, local, ret, invoked, regLog, calls, outsideDispatch>>

\* handler, exists := md.handlers[message.MessageType]
DetRead(p) ==
    /\ pc[p] = "det_read"
    /\ local' = [local EXCEPT ![p] =
                    [handler |-> Lookup(handlers, args[p].message.MessageType).handler,
                     exists  |-> Lookup(handlers, args[p].message.MessageType).exists,
                     seenAtCall |-> local[p].seenAtCall,
                     seenAtRead |-> Len(regLog)]]
    /\ pc' = [pc EXCEPT ![p] = "det_runlock"]
    /\ UNCHANGED <<handlers, mu, args, ret, invoked, regLog, calls, outsideDispatch>>

\* md.mu.RUnlock()
DetRUnlock(p) ==
    /\ pc[p] = "det_runlock"
    /\ mu' = [mu EXCEPT !.readers = @ \ {p}]
    /\ pc' = [pc EXCEPT ![p] = "det_route"]
    /\ UNCHANGED <<handlers, args, local, ret, invoked, regLog, calls, outsideDispatch>>

\* if exists { return handler.Process(message) }; return md.fallback.Process(message)
DetRoute(p) ==
    /\ pc[p] = "det_route"
    /\ invoked' = [invoked EXCEPT ![p] = Route(local[p], args[p].message).invoked]
    /\ ret' = [ret EXCEPT ![p] = Route(local[p], args[p].message).result]
    /\ pc' = [pc EXCEPT ![p] = "det_done"]
    /\ UNCHANGED <<handlers, mu, args, local, regLog, calls, outsideDispatch>>

DispatchNext ==
    \E p \in Procs :
        \/ CallRegisterHandler(p)
        \/ RegLock(p)
        \/ RegStore(p)
        \/ RegUnlock(p)
        \/ CallDetectAndRoute(p)
        \/ DetRLock(p)
        \/ DetRead(p)
        \/ DetRUnlock(p)
        \/ DetRoute(p)

-----------------------------------------------------------------------------
(* Messages: ParseEDIFACTMessage and the service segments (lesson 6), and  *)
(* the adapters that convert a parsed message (the two sample programs).   *)

UNH == <<"U","N","H">>
UNT == <<"U","N","T">>
UNB == <<"U","N","B">>
UNZ == <<"U","N","Z">>
UNG == <<"U","N","G">>
UNE == <<"U","N","E">>

\* The tags ServiceSegmentHandler.registerValidators registers.
ServiceTags == {UNH, UNT, UNB, UNZ, UNG, UNE}

\* The characters raw messages are drawn from: two data characters, the
\* segment terminator and the two separators.
MsgChars == {"a", "b", DataElementSeparator, ComponentSeparator, SegmentTerminator}

RECURSIVE MessagesUpTo(_)
MessagesUpTo(n) ==
    IF n = 0 THEN {<<>>}
    ELSE LET shorter == MessagesUpTo(n - 1)
         IN  shorter \cup {Append(s, c) : s \in {t \in shorter : Len(t) = n - 1}, c \in MsgChars}

\* A parser that keeps only the segments whose tag it knows.
RECURSIVE ParseSegmentsKnownOnly(_, _, _)
ParseSegmentsKnownOnly(pieces, i, message) ==
    IF i > Len(pieces) THEN message
    ELSE LET parts == Split(pieces[i], DataElementSeparator)
         IN  IF pieces[i] = <<>> \/ parts[1] \notin ServiceTags
             THEN ParseSegmentsKnownOnly(pieces, i + 1, message)
             ELSE ParseSegmentsKnownOnly(pieces, i + 1,
                      [message EXCEPT !.Segments =
                          Append(@, [Tag      |-> parts[1],
                                     Elements |-> Tail(parts),
                                     Position |-> i - 1,
                                     Raw      |-> pieces[i] \o <<SegmentTerminator>>])])

\* ParseEDIFACTMessage: the raw content is split at every segment terminator,
\* empty pieces are skipped; each piece is split at every element separator.
\* Position is the index of the piece among all pieces (from 0).  The message
\* type is the first component of the second element of a UNH segment.
RECURSIVE ParseSegments(_, _, _)
ParseSegments(pieces, i, message) ==
    IF i > Len(pieces) THEN message
    ELSE IF pieces[i] = <<>> THEN ParseSegments(pieces, i + 1, message)
    ELSE LET parts   == Split(pieces[i], DataElementSeparator)
             segment == [Tag      |-> parts[1],
                         Elements |-> Tail(parts),
                         Position |-> i - 1,
                         Raw      |-> pieces[i] \o <<SegmentTerminator>>]
             typed   == IF segment.Tag = UNH /\ Len(segment.Elements) > 1
                        THEN Split(segment.Elements[2], ComponentSeparator)[1]
                        ELSE message.MessageType
         IN  ParseSegments(pieces, i + 1,
                           [message EXCEPT !.Segments = Append(@, segment),
                                           !.MessageType = typed])

ParseEDIFACTMessage(content) ==
    ParseSegments(Split(content, SegmentTerminator), 1,
                  [MessageType |-> <<>>, Segments |-> <<>>, RawContent |-> content,
                   Interchange |-> <<>>])

NoInfo == [Tag |-> <<>>, Elements |-> <<>>, Position |-> 0, Timestamp |-> 0,
           MessageType |-> <<>>, ReferenceNumber |-> <<>>, SegmentCount |-> <<>>,
           SyntaxIdentifier |-> <<>>, SenderID |-> <<>>, ReceiverID |-> <<>>,
           DateTime |-> <<>>, ControlReference |-> <<>>, MessageCount |-> <<>>,
           Release |-> <<>>, Version |-> <<>>]

\* segment.Elements[k] with Go's index k (from 0), guarded by the caller.
El(segment, k) == segment.Elements[k + 1]

\* extractServiceSegmentInfo: the fields read from a service segment.  For UNH
\* the type descriptor is split at the component separator; the message type
\* is component 0, and with four components or more Release is component 2
\* and Version is component 3.
extractServiceSegmentInfo(segment, time) ==
    LET n    == Len(segment.Elements)
        base == [NoInfo EXCEPT !.Tag = segment.Tag, !.Elements = segment.Elements,
                               !.Position = segment.Position, !.Timestamp = time]
    IN  CASE segment.Tag = UNH ->
                LET msgTypeParts == IF n >= 2
                                    THEN Split(El(segment, 1), ComponentSeparator)
                                    ELSE <<>>
                IN  [base EXCEPT
                        !.MessageType = IF Len(msgTypeParts) >= 1 THEN msgTypeParts[1] ELSE @,
                        !.Release = IF Len(msgTypeParts) >= 4 THEN msgTypeParts[3] ELSE @,
                        !.Version = IF Len(msgTypeParts) >= 4 THEN msgTypeParts[4] ELSE @,
                        !.ReferenceNumber = IF n >= 1 THEN El(segment, 0) ELSE @]
          [] segment.Tag = UNT ->
                [base EXCEPT
                        !.SegmentCount = IF n >= 1 THEN El(segment, 0) ELSE @,
                        !.ReferenceNumber = IF n >= 2 THEN El(segment, 1) ELSE @]
          [] segment.Tag = UNB ->
                [base EXCEPT
                        !.SyntaxIdentifier = IF n >= 1 THEN El(segment, 0) ELSE @,
                        !.SenderID = IF n >= 3 THEN El(segment, 2) ELSE @,
                        !.ReceiverID = IF n >= 4 THEN El(segment, 3) ELSE @,
                        !.DateTime = IF n >= 5 THEN El(segment, 4) ELSE @,
                        !.ControlReference = IF n >= 6 THEN El(segment, 5) ELSE @]
          [] segment.Tag = UNZ ->
                [base EXCEPT
                        !.MessageCount = IF n >= 1 THEN El(segment, 0) ELSE @,
                        !.ControlReference = IF n >= 2 THEN El(segment, 1) ELSE @]
          [] OTHER -> base

\* The validators of the service segments: the error each returns, or nil.
validateUNH(segment) ==
    IF Len(segment.Elements) < 2 THEN "UNH must have at least 2 elements"
    ELSE LET msgTypeParts == Split(El(segment, 1), ComponentSeparator)
         IN  IF Len(msgTypeParts) < 4 THEN "invalid message type format in UNH"
             ELSE IF msgTypeParts[3] = <<>> \/ msgTypeParts[4] = <<>>
                  THEN "invalid release/version in UNH"
                  ELSE Nil

validateUNT(segment) ==
    IF Len(segment.Elements) < 2 THEN "UNT must have at least 2 elements"
    ELSE IF El(segment, 0) = <<>> THEN "segment count missing in UNT"
    ELSE IF El(segment, 1) = <<>> THEN "reference number missing in UNT"
    ELSE Nil

validateUNB(segment) ==
    IF Len(segment.Elements) < 5 THEN "UNB must have at least 5 elements"
    ELSE IF El(segment, 0) = <<>> THEN "syntax identifier missing in UNB"
    ELSE IF El(segment, 2) = <<>> \/ El(segment, 3) = <<>>
         THEN "sender or receiver ID missing in UNB"
    ELSE IF El(segment, 4) = <<>> THEN "date/time missing in UNB"
    ELSE IF Len(segment.Elements) >= 6 /\ El(segment, 5) = <<>>
         THEN "interchange control reference missing in UNB"
    ELSE Nil

validateUNZ(segment) ==
    IF Len(segment.Elements) < 2 THEN "UNZ must have at least 2 elements"
    ELSE IF El(segment, 0) = <<>> THEN "message count missing in UNZ"
    ELSE IF El(segment, 1) = <<>> THEN "interchange control reference missing in UNZ"
    ELSE Nil

validateUNG(segment) ==
    IF Len(segment.Elements) < 4 THEN "UNG must have at least 4 elements"
    ELSE IF El(segment, 0) = <<>> THEN "functional group ID missing in UNG"
    ELSE IF El(segment, 2) = <<>> \/ El(segment, 3) = <<>>
         THEN "sender or receiver ID missing in UNG"
    ELSE Nil

validateUNE(segment) ==
    IF Len(segment.Elements) < 2 THEN "UNE must have at least 2 elements"
    ELSE IF El(segment, 0) = <<>> THEN "message count missing in UNE"
    ELSE IF El(segment, 1) = <<>> THEN "functional group reference missing in UNE"
    ELSE Nil

\* ssh.validators[segment.Tag](segment), for a tag that has a validator.
validator(segment) ==
    CASE segment.Tag = UNH -> validateUNH(segment)
      [] segment.Tag = UNT -> validateUNT(segment)
      [] segment.Tag = UNB -> validateUNB(segment)
      [] segment.Tag = UNZ -> validateUNZ(segment)
      [] segment.Tag = UNG -> validateUNG(segment)
      [] segment.Tag = UNE -> validateUNE(segment)

\* fmt.Sprintf("%d", n): the decimal digits of n, with a sign when negative.
DigitChar(d) == <<"0", "1", "2", "3", "4", "5", "6", "7", "8", "9">>[d + 1]

RECURSIVE Digits(_)
Digits(n) ==
    IF n < 10 THEN <<DigitChar(n)>>
    ELSE Digits(n \div 10) \o <<DigitChar(n % 10)>>

Itoa(n) == IF n < 0 THEN <<"-">> \o Digits(0 - n) ELSE Digits(n)

\* A map with one key set, as a Go map assignment leaves it.
MapSet(m, key, value) ==
    [k \in (DOMAIN m) \cup {key} |-> IF k = key THEN value ELSE m[k]]

EmptyMap == [k \in {} |-> <<>>]

\* The loop of ProcessMessage that fills result.ServiceSegs: every segment
\* whose tag has a validator is extracted and stored under its tag.
RECURSIVE ExtractAll(_, _, _, _)
ExtractAll(segments, i, time, segs) ==
    IF i > Len(segments) THEN segs
    ELSE IF segments[i].Tag \in ServiceTags
         THEN ExtractAll(segments, i + 1, time,
                         MapSet(segs, segments[i].Tag,
                                extractServiceSegmentInfo(segments[i], time)))
         ELSE ExtractAll(segments, i + 1, time, segs)

\* &ServiceSegmentResult{...} as ProcessMessage creates it; ServiceSegs is
\* kept in serviceSegs.
NewResult(message) ==
    [MessageType |-> message.MessageType, Valid |-> TRUE,
     Errors |-> <<>>, Warnings |-> <<>>]

\* The loop of ProcessMessage once more, for the validators: the error of
\* every service segment is appended as "<tag>: <error>" and clears Valid.
RECURSIVE ValidateAll(_, _, _)
ValidateAll(segments, i, res) ==
    IF i > Len(segments) THEN res
    ELSE IF segments[i].Tag \in ServiceTags /\ validator(segments[i]) # Nil
         THEN ValidateAll(segments, i + 1,
                          [res EXCEPT
                              !.Valid = FALSE,
                              !.Errors = Append(@, [segment |-> segments[i].Tag,
                                                    err     |-> validator(segments[i])])])
         ELSE ValidateAll(segments, i + 1, res)

\* The loop of validateMessageEnvelope: element k (from 0) of the last
\* segment with the tag that has more than k elements, or the empty string.
RECURSIVE EnvelopeRef(_, _, _, _, _)
EnvelopeRef(segments, i, tag, k, ref) ==
    IF i > Len(segments) THEN ref
    ELSE IF segments[i].Tag = tag /\ Len(segments[i].Elements) > k
         THEN EnvelopeRef(segments, i + 1, tag, k, El(segments[i], k))
         ELSE EnvelopeRef(segments, i + 1, tag, k, ref)

\* validateMessageEnvelope: a reference-mismatch error when both references
\* are non-empty and differ; a segment-count warning when the count the UNT
\* entry declares is not the decimal text of len(message.Segments) - 2.
validateMessageEnvelope(message, res, segs) ==
    LET unhRef == EnvelopeRef(message.Segments, 1, UNH, 0, <<>>)
        untRef == EnvelopeRef(message.Segments, 1, UNT, 1, <<>>)
        checked == IF unhRef # <<>> /\ untRef # <<>> /\ unhRef # untRef
                   THEN [res EXCEPT
                            !.Valid = FALSE,
                            !.Errors = Append(@, [text |-> "Reference number mismatch",
                                                  unh |-> unhRef, unt |-> untRef])]
                   ELSE res
        expectedCount == Len(message.Segments) - 2
    IN  IF UNT \in DOMAIN segs /\ segs[UNT].SegmentCount # Itoa(expectedCount)
        THEN [checked EXCEPT
                 !.Warnings = Append(@, [text |-> "Segment count mismatch",
                                         expected |-> Itoa(expectedCount),
                                         found |-> segs[UNT].SegmentCount])]
        ELSE checked

NoInterchange == [SenderID |-> <<>>, ReceiverID |-> <<>>, Date |-> <<>>,
                  Time |-> <<>>, RefNumber |-> <<>>, MessageType |-> <<>>]

\* extractInterchangeInfo: the fields read from every UNB and UNH segment, a
\* later segment overwriting what an earlier one set.
RECURSIVE InterchangeFrom(_, _, _)
InterchangeFrom(segments, i, info) ==
    IF i > Len(segments) THEN info
    ELSE LET segment == segments[i]
             n == Len(segment.Elements)
             parts == IF n >= 5 THEN Split(El(segment, 4), ComponentSeparator) ELSE <<>>
             next ==
                IF segment.Tag = UNB
                THEN [info EXCEPT
                        !.SenderID = IF n >= 3 THEN El(segment, 2) ELSE @,
                        !.ReceiverID = IF n >= 4 THEN El(segment, 3) ELSE @,
                        !.Date = IF Len(parts) >= 2 THEN parts[1] ELSE @,
                        !.Time = IF Len(parts) >= 2 THEN parts[2] ELSE @,
                        !.RefNumber = IF n >= 6 THEN El(segment, 5) ELSE @]
                ELSE IF segment.Tag = UNH /\ n >= 2
                THEN [info EXCEPT
                        !.MessageType = Split(El(segment, 1), ComponentSeparator)[1]]
                ELSE info
         IN  InterchangeFrom(segments, i + 1, next)

extractInterchangeInfo(message) == InterchangeFrom(message.Segments, 1, NoInterchange)

\* A ProcessMessage that strips the service segments from the message it
\* has processed.
ProcessedMessageStripped(message) ==
    [message EXCEPT
        !.Segments = SelectSeq(@, LAMBDA sg : sg.Tag \notin ServiceTags),
        !.Interchange = <<extractInterchangeInfo(message)>>]

\* The message as ProcessMessage leaves it:
\* message.Interchange = ssh.extractInterchangeInfo(message).  The pointer is
\* a sequence: empty when nil, else holding the InterchangeInfo.
ProcessedMessage(message) ==
    [message EXCEPT !.Interchange = <<extractInterchangeInfo(message)>>]

\* The *ServiceSegmentResult ProcessMessage returns, without ServiceSegs.
ProcessMessage(message, segs) ==
    validateMessageEnvelope(message, ValidateAll(message.Segments, 1, NewResult(message)), segs)

\* The first segment with the tag that has more than k elements, or 0.
FirstWith(segments, tag, k) ==
    LET hits == {i \in 1..Len(segments) :
                    segments[i].Tag = tag /\ Len(segments[i].Elements) > k}
    IN  IF hits = {} THEN 0 ELSE CHOOSE i \in hits : \A j \in hits : i <= j

\* SyntaxValidator.validateSegmentCount: for the first UNT segment, when it
\* has an element, expectedCount is len(message.Segments) - 2 and is compared
\* with actualCount - 2, where actualCount is len(message.Segments); the
\* count the UNT segment declares is not read.
validateSegmentCount(message) ==
    LET segments == message.Segments
        unts == {i \in 1..Len(segments) : segments[i].Tag = UNT}
        u == IF unts = {} THEN 0 ELSE CHOOSE i \in unts : \A j \in unts : i <= j
        expectedCount == Len(segments) - 2
        actualCount == Len(segments)
    IN  IF u # 0 /\ Len(segments[u].Elements) > 0 /\ expectedCount # actualCount - 2
        THEN <<[Segment |-> UNT, Element |-> "Segment Count",
                Position |-> segments[u].Position, Rule |-> "segment_count",
                Message |-> [text |-> "Segment count mismatch",
                             expected |-> Itoa(expectedCount),
                             actual |-> Itoa(actualCount - 2)],
                Severity |-> "ERROR"]>>
        ELSE <<>>

\* SyntaxValidator.validateReferenceMatching: the reference of the first UNH
\* segment with an element and of the first UNT segment with two; an error
\* when both are non-empty and differ.
validateReferenceMatching(message) ==
    LET segments == message.Segments
        h == FirstWith(segments, UNH, 0)
        t == FirstWith(segments, UNT, 1)
        unhRef == IF h = 0 THEN <<>> ELSE El(segments[h], 0)
        untRef == IF t = 0 THEN <<>> ELSE El(segments[t], 1)
    IN  IF unhRef # <<>> /\ untRef # <<>> /\ unhRef # untRef
        THEN <<[Segment |-> UNT, Element |-> "Reference", Position |-> 0,
                Rule |-> "reference_matching",
                Message |-> [text |-> "Reference number mismatch",
                             unh |-> unhRef, unt |-> untRef],
                Severity |-> "ERROR"]>>
        ELSE <<>>

\* reader.ReadString: the *model.Message the adapters receive, built with this
\* repository's own parsers: the segments of ParseEDIFACTMessage, each parsed
\* by ParseSegment into elements with Value, IsComposite and Components.
ReadString(content) ==
    LET m == ParseEDIFACTMessage(content)
    IN  [Type     |-> m.MessageType,
         Segments |-> [i \in 1..Len(m.Segments) |-> ParseSegment(m.Segments[i].Raw)]]

\* message.GetSegmentByTag: the index of the first segment with the tag, or 0.
GetSegmentByTag(message, tag) ==
    IF \E i \in 1..Len(message.Segments) : message.Segments[i].Tag = tag
    THEN CHOOSE i \in 1..Len(message.Segments) :
            /\ message.Segments[i].Tag = tag
            /\ \A j \in 1..(i - 1) : message.Segments[j].Tag # tag
    ELSE 0

\* The message reference both adapters read from the UNH segment.
MessageRefOf(message) ==
    LET u == GetSegmentByTag(message, UNH)
    IN  IF u # 0 /\ Len(message.Segments[u].Elements) > 0
        THEN message.Segments[u].Elements[1].Value
        ELSE <<>>

\* The string SimpleAdapter.Handle appends for one element.
FlatElement(element) ==
    IF element.IsComposite
    THEN Join(element.Components, ComponentSeparator)
    ELSE element.Value

RECURSIVE Flatten(_, _)
Flatten(segments, i) ==
    IF i > Len(segments) THEN <<>>
    ELSE <<segments[i].Tag>>
         \o [k \in 1..Len(segments[i].Elements) |-> FlatElement(segments[i].Elements[k])]
         \o Flatten(segments, i + 1)

\* A flat conversion that appends every component of a composite on its own.
RECURSIVE FlattenExploding(_, _)
FlattenExploding(segments, i) ==
    IF i > Len(segments) THEN <<>>
    ELSE LET RECURSIVE Each(_, _)
             Each(elements, k) ==
                IF k > Len(elements) THEN <<>>
                ELSE (IF elements[k].IsComposite
                      THEN elements[k].Components
                      ELSE <<elements[k].Value>>) \o Each(elements, k + 1)
         IN  <<segments[i].Tag>> \o Each(segments[i].Elements, 1)
             \o FlattenExploding(segments, i + 1)

SimpleHandleExploding(message) ==
    [MessageType |-> message.Type,
     MessageRef  |-> MessageRefOf(message),
     Elements    |-> FlattenExploding(message.Segments, 1)]

\* SimpleAdapter.Handle: every segment in order, its tag and then each element,
\* a composite element as its components joined by the colon.
SimpleHandle(message) ==
    [MessageType |-> message.Type,
     MessageRef  |-> MessageRefOf(message),
     Elements    |-> Flatten(message.Segments, 1)]

\* segmentData of CustomHandler.Handle: element_1 .. element_n, each the
\* components of a composite element or the value of a simple one, and
\* element_count.
SegmentData(segment) ==
    [elements      |-> [k \in 1..Len(segment.Elements) |->
                           IF segment.Elements[k].IsComposite
                           THEN [components |-> segment.Elements[k].Components]
                           ELSE [value |-> segment.Elements[k].Value]],
     element_count |-> Len(segment.Elements)]

\* The loop of CustomHandler.Handle: result.Data[segment.Tag] = segmentData.
RECURSIVE StoreAll(_, _, _)
StoreAll(segments, i, data) ==
    IF i > Len(segments) THEN data
    ELSE StoreAll(segments, i + 1,
                  MapSet(data, segments[i].Tag, SegmentData(segments[i])))

\* CustomHandler.Handle
CustomHandle(message) ==
    [MessageType |-> message.Type,
     MessageRef  |-> MessageRefOf(message),
     Data        |-> StoreAll(message.Segments, 1, EmptyMap)]

NoMessage == [MessageType |-> <<>>, Segments |-> <<>>, RawContent |-> <<>>,
              Interchange |-> <<>>]
NoResult == [MessageType |-> <<>>, Valid |-> TRUE, Errors |-> <<>>, Warnings |-> <<>>]
NoFindings == [segment_count |-> <<>>, reference_matching |-> <<>>]
NoTree == [Type |-> <<>>, Segments |-> <<>>]
NoFlat == [MessageType |-> <<>>, MessageRef |-> <<>>, Elements |-> <<>>]
NoNested == [MessageType |-> <<>>, MessageRef |-> <<>>, Data |-> EmptyMap]

\* Messages in an envelope, after the test messages of lessons 6 and 7: a UNH
\* header with a reference, some body segments, and a UNT trailer with a
\* segment count and a reference.
Refs == {<<>>, <<"1">>, <<"2">>}

TypeDescriptor == <<"I","N","V","O","I","C",":","D",":","9","7","A",":","U","N">>

HeaderOf(ref) ==
    UNH \o <<DataElementSeparator>> \o ref \o <<DataElementSeparator>>
        \o TypeDescriptor \o <<SegmentTerminator>>

RECURSIVE BodyOf(_)
BodyOf(k) == IF k = 0 THEN <<>> ELSE <<"a", SegmentTerminator>> \o BodyOf(k - 1)

TrailerOf(count, ref) ==
    UNT \o <<DataElementSeparator>> \o count \o <<DataElementSeparator>>
        \o ref \o <<SegmentTerminator>>

EnvelopeInputs ==
    {HeaderOf(r1) \o BodyOf(k) \o TrailerOf(Itoa(c), r2) :
        r1 \in Refs, r2 \in Refs, k \in 0..MaxBody, c \in 0..(MaxBody + 2)}

MessageInputs ==
    MessagesUpTo(MaxMsgLen) \cup {UNHExample, InvoiceExample} \cup EnvelopeInputs

MessageInit ==
    /\ rawContent \in MessageInputs
    /\ mstep = "input"
    /\ msg = NoMessage
    /\ tree = NoTree
    /\ flat = NoFlat
    /\ nested = NoNested
    /\ serviceSegs = EmptyMap
    /\ result = NoResult
    /\ runs = <<>>
    /\ findings = NoFindings
    /\ now = 0

MessageIdle ==
    /\ rawContent = <<>>
    /\ mstep = "idle"
    /\ msg = NoMessage
    /\ tree = NoTree
    /\ flat = NoFlat
    /\ nested = NoNested
    /\ serviceSegs = EmptyMap
    /\ result = NoResult
    /\ runs = <<>>
    /\ findings = NoFindings
    /\ now = 0

\* time passes
Tick ==
    /\ mstep # "idle"
    /\ now < MaxTime
    /\ now' = now + 1
    /\ UNCHANGED <<rawContent, mstep, msg, tree, flat, nested, serviceSegs, result, runs,
                   findings, outsideMessage>>

\* message := ParseEDIFACTMessage(rawMessage)
ParseMessageStep ==
    /\ mstep = "input"
    /\ msg' = ParseEDIFACTMessage(rawContent)
    /\ mstep' = "parsed"
    /\ UNCHANGED <<rawContent, tree, flat, nested, serviceSegs, result, runs, findings,
                   now, outsideMessage>>

\* result := handler.ProcessMessage(message), on a freshly parsed message or
\* once more on a message that has been processed.
ProcessMessageStep ==
    /\ mstep \in {"parsed", "extracted"}
    /\ Len(runs) < MaxRuns
    /\ serviceSegs' = ExtractAll(msg.Segments, 1, now, EmptyMap)
    /\ result' = ProcessMessage(msg, serviceSegs')
    /\ msg' = ProcessedMessage(msg)
    /\ runs' = Append(runs, [before |-> msg, after |-> msg', result |-> result',
                             serviceSegs |-> serviceSegs'])
    /\ mstep' = "extracted"
    /\ UNCHANGED <<rawContent, tree, flat, nested, findings, now, outsideMessage>>

\* errors := rule.Validate(message) for the rules segment_count and
\* reference_matching of the SyntaxValidator.
ValidateRulesStep ==
    /\ mstep = "parsed"
    /\ findings' = [segment_count      |-> validateSegmentCount(msg),
                    reference_matching |-> validateReferenceMatching(msg)]
    /\ mstep' = "validated"
    /\ UNCHANGED <<rawContent, msg, tree, flat, nested, serviceSegs, result, runs, now,
                   outsideMessage>>

\* message, err := reader.ReadString(edifactData)
ReadStep ==
    /\ mstep = "input"
    /\ tree' = ReadString(rawContent)
    /\ mstep' = "read"
    /\ UNCHANGED <<rawContent, msg, flat, nested, serviceSegs, result, runs, findings,
                   now, outsideMessage>>

\* SimpleAdapter.Handle(message)
FlatStep ==
    /\ mstep = "read"
    /\ flat' = SimpleHandle(tree)
    /\ mstep' = "flat"
    /\ UNCHANGED <<rawContent, msg, tree, nested, serviceSegs, result, runs, findings,
                   now, outsideMessage>>

\* CustomHandler.Handle(message)
NestedStep ==
    /\ mstep = "read"
    /\ nested' = CustomHandle(tree)
    /\ mstep' = "nested"
    /\ UNCHANGED <<rawContent, msg, tree, flat, serviceSegs, result, runs, findings,
                   now, outsideMessage>>

MessageNext ==
    \/ Tick
    \/ ParseMessageStep
    \/ ProcessMessageStep
    \/ ValidateRulesStep
    \/ ReadStep
    \/ FlatStep
    \/ NestedStep

-----------------------------------------------------------------------------
(* RetryHandler: ExecuteWithRetry and its exponential backoff (lesson 4 of *)
(* the advanced course).                                                   *)

\* The errors the mock operations return.
OperationErrors == {"network timeout", "database connection failed"}

\* NewRetryHandler
NewRetryHandler(maxRetries, baseDelay, maxDelay) ==
    [maxRetries |-> maxRetries, baseDelay |-> baseDelay, maxDelay |-> maxDelay,
     backoffFactor |-> 2]

\* math.Pow(factor, n) for a whole factor and n >= 0.
RECURSIVE Pow(_, _)
Pow(factor, n) == IF n = 0 THEN 1 ELSE factor * Pow(factor, n - 1)

\* calculateDelay: baseDelay * backoffFactor^attempt, capped at maxDelay.
calculateDelay(h, n) ==
    LET delay == h.baseDelay * Pow(h.backoffFactor, n)
    IN  IF delay > h.maxDelay THEN h.maxDelay ELSE delay

\* A loop that stops one attempt early.
ShouldAttemptExclusive(h, n) == n < h.maxRetries

\* The loop condition of ExecuteWithRetry: attempt <= rh.maxRetries.
ShouldAttempt(h, n) == n <= h.maxRetries

\* The error ExecuteWithRetry returns is kept as a sequence: empty for nil,
\* else holding the error.
\* fmt.Errorf("operation failed after %d attempts: %w", rh.maxRetries+1, lastErr)
FailedAfter(h, wrapped) ==
    <<[text |-> "operation failed after attempts", attempts |-> h.maxRetries + 1,
       wrapped |-> wrapped]>>

RetryInit ==
    /\ rh \in {NewRetryHandler(m, b, d) : m \in 0..MaxRetries, b \in 1..MaxDelay, d \in 1..MaxDelay}
    /\ rpc = "idle"
    /\ attempt = 0
    /\ lastErr = Nil
    /\ rret = <<>>
    /\ opLog = <<>>
    /\ slept = <<>>

\* retryHandler := NewRetryHandler(3, 100*time.Millisecond, 1*time.Second),
\* in units of 100 ms and with the delay cap brought within the bound.
RetryIdle ==
    /\ rh = NewRetryHandler(3, 1, MaxDelay)
    /\ rpc = "idle"
    /\ attempt = 0
    /\ lastErr = Nil
    /\ rret = <<>>
    /\ opLog = <<>>
    /\ slept = <<>>

\* ExecuteWithRetry is called: var lastErr error; attempt := 0
CallExecuteWithRetry ==
    /\ rpc = "idle"
    /\ opLog = <<>>
    /\ attempt' = 0
    /\ lastErr' = Nil
    /\ rpc' = "for"
    /\ UNCHANGED <<rh, rret, opLog, slept, outsideRetry>>

\* for ...; attempt <= rh.maxRetries; ...: the loop goes on, or ends and the
\* error wrapping lastErr is returned.
RetryFor ==
    /\ rpc = "for"
    /\ IF ShouldAttempt(rh, attempt)
       THEN /\ rpc' = "operation"
            /\ UNCHANGED rret
       ELSE /\ rpc' = "done"
            /\ rret' = FailedAfter(rh, lastErr)
    /\ UNCHANGED <<rh, attempt, lastErr, opLog, slept, outsideRetry>>

\* err := operation(): nil returns nil at once; a failure is kept in lastErr
\* and is followed by a sleep unless this was the last attempt.
RetryOperation ==
    /\ rpc = "operation"
    /\ \E e \in OperationErrors \cup {Nil} :
            /\ opLog' = Append(opLog, e)
            /\ IF e = Nil
               THEN /\ rret' = <<>>
                    /\ rpc' = "done"
                    /\ UNCHANGED <<lastErr, attempt>>
               ELSE /\ lastErr' = e
                    /\ UNCHANGED rret
                    /\ IF attempt < rh.maxRetries
                       THEN rpc' = "sleep" /\ UNCHANGED attempt
                       ELSE rpc' = "for" /\ attempt' = attempt + 1
    /\ UNCHANGED <<rh, slept, outsideRetry>>

\* delay := rh.calculateDelay(attempt); time.Sleep(delay); attempt++
RetrySleep ==
    /\ rpc = "sleep"
    /\ slept' = Append(slept, calculateDelay(rh, attempt))
    /\ attempt' = attempt + 1
    /\ rpc' = "for"
    /\ UNCHANGED <<rh, lastErr, rret, opLog, outsideRetry>>

RetryNext ==
    \/ CallExecuteWithRetry
    \/ RetryFor
    \/ RetryOperation
    \/ RetrySleep

-----------------------------------------------------------------------------
(* CircuitBreaker: Execute, canExecute and recordResult, called from       *)
(* several goroutines (lesson 4 of the advanced course).                   *)

Callers == 1..NumCallers

\* CircuitState, by the names String() gives.
StateClosed == "CLOSED"
StateOpen == "OPEN"
StateHalfOpen == "HALF_OPEN"

\* NewCircuitBreaker: the breaker starts Closed with no failure counted.
NewCircuitBreaker(failureThreshold, timeout) ==
    [failureThreshold |-> failureThreshold, timeout |-> timeout,
     state |-> StateClosed, failureCount |-> 0, lastFailureTime |-> 0]

\* A timeout test that lets a call through when exactly the timeout has passed.
ElapsedInclusive(c, time) == time - c.lastFailureTime >= c.timeout

\* time.Since(cb.lastFailureTime) > cb.timeout
Elapsed(c, time) == time - c.lastFailureTime > c.timeout

\* A threshold test that needs one failure more.
ReachedThresholdExclusive(c) == c.failureCount > c.failureThreshold

\* cb.failureCount >= cb.failureThreshold
ReachedThreshold(c) == c.failureCount >= c.failureThreshold

\* A recordResult that closes the breaker without clearing the count.
recordResultKeepingCount(c, e, time) ==
    IF e # Nil
    THEN LET counted == [c EXCEPT !.failureCount = @ + 1, !.lastFailureTime = time]
         IN  IF \/ counted.state = StateHalfOpen
                \/ counted.state = StateClosed /\ ReachedThreshold(counted)
             THEN [counted EXCEPT !.state = StateOpen]
             ELSE counted
    ELSE IF c.state = StateHalfOpen
         THEN [c EXCEPT !.state = StateClosed]
         ELSE c

\* recordResult: a failure is counted and timed, and opens the breaker when
\* it is HalfOpen, or Closed with the threshold reached; a success closes a
\* HalfOpen breaker and clears the count, and changes nothing otherwise.
recordResult(c, e, time) ==
    IF e # Nil
    THEN LET counted == [c EXCEPT !.failureCount = @ + 1, !.lastFailureTime = time]
         IN  IF \/ counted.state = StateHalfOpen
                \/ counted.state = StateClosed /\ ReachedThreshold(counted)
             THEN [counted EXCEPT !.state = StateOpen]
             ELSE counted
    ELSE IF c.state = StateHalfOpen
         THEN [c EXCEPT !.state = StateClosed, !.failureCount = 0]
         ELSE c

\* fmt.Errorf("circuit breaker is %s", cb.state.String())
Rejection(state) ==
    CASE state = StateClosed -> "circuit breaker is CLOSED"
      [] state = StateOpen -> "circuit breaker is OPEN"
      [] state = StateHalfOpen -> "circuit breaker is HALF_OPEN"

NoObs == [seenState |-> "none", since |-> 0, allowed |-> FALSE, ran |-> FALSE,
          wrote |-> FALSE, upgradedTo |-> "none", recBefore |-> "none",
          recErr |-> Nil, recAfter |-> "none", recCount |-> 0]

\* The history of state changes, one entry longer when the state changed.
Logged(log, before, after, p, e) ==
    IF after.state = before.state THEN log
    ELSE Append(log, [from |-> before.state, to |-> after.state, by |-> p,
                      count |-> after.failureCount, err |-> e])

BreakerStart(c) ==
    /\ cb = c
    /\ cbmu = {}
    /\ bpc = [p \in Callers |-> "idle"]
    /\ bret = [p \in Callers |-> Nil]
    /\ obs = [p \in Callers |-> NoObs]
    /\ transitions = <<>>
    /\ executes = 0
    /\ clock = 0

BreakerInit ==
    \E failureThreshold \in 1..MaxThreshold, timeout \in 0..MaxTimeout :
        BreakerStart(NewCircuitBreaker(failureThreshold, timeout))

\* circuitBreaker := NewCircuitBreaker(2, 5*time.Second)
BreakerIdle == BreakerStart(NewCircuitBreaker(2, 5))

\* time passes
BreakerTick ==
    /\ clock < MaxClock
    /\ clock' = clock + 1
    /\ UNCHANGED <<cb, cbmu, bpc, bret, obs, transitions, executes, outsideBreaker>>

\* a goroutine calls cb.Execute(operation)
CallExecute(p) ==
    /\ bpc[p] = "idle"
    /\ executes < MaxExecutes
    /\ executes' = executes + 1
    /\ bpc' = [bpc EXCEPT ![p] = "canExecute"]
    /\ bret' = [bret EXCEPT ![p] = Nil]
    /\ obs' = [obs EXCEPT ![p] = NoObs]
    /\ UNCHANGED <<cb, cbmu, transitions, clock, outsideBreaker>>

\* canExecute: cb.mu.RLock().  Writers hold the lock only within one step,
\* so a reader never waits.
CanExecuteRLock(p) ==
    /\ bpc[p] = "canExecute"
    /\ cbmu' = cbmu \cup {p}
    /\ bpc' = [bpc EXCEPT ![p] = "switch"]
    /\ UNCHANGED <<cb, bret, obs, transitions, executes, clock, outsideBreaker>>

\* canExecute: switch cb.state.  Closed and HalfOpen return true; Open
\* returns false unless the timeout has elapsed, and then the read lock is
\* given up (cb.mu.RUnlock()) to take the write lock.
CanExecuteSwitch(p) ==
    /\ bpc[p] = "switch"
    /\ LET seen == [obs[p] EXCEPT !.seenState = cb.state,
                                  !.since = clock - cb.lastFailureTime]
       IN  IF cb.state = StateOpen
           THEN IF Elapsed(cb, clock)
                THEN /\ cbmu' = cbmu \ {p}
                     /\ bpc' = [bpc EXCEPT ![p] = "upgrade"]
                     /\ obs' = [obs EXCEPT ![p] = seen]
                ELSE /\ bpc' = [bpc EXCEPT ![p] = "return"]
                     /\ obs' = [obs EXCEPT ![p] = [seen EXCEPT !.allowed = FALSE]]
                     /\ UNCHANGED cbmu
           ELSE /\ bpc' = [bpc EXCEPT ![p] = "return"]
                /\ obs' = [obs EXCEPT ![p] = [seen EXCEPT !.allowed = TRUE]]
                /\ UNCHANGED cbmu
    /\ UNCHANGED <<cb, bret, transitions, executes, clock, outsideBreaker>>

\* canExecute: cb.mu.Lock(); cb.state = StateHalfOpen; cb.mu.Unlock().  The
\* state is not read again under the write lock.
CanExecuteUpgrade(p) ==
    /\ bpc[p] = "upgrade"
    /\ cbmu = {}
    /\ cb' = [cb EXCEPT !.state = StateHalfOpen]
    /\ transitions' = Logged(transitions, cb, cb', p, Nil)
    /\ obs' = [obs EXCEPT ![p] = [@ EXCEPT !.wrote = TRUE, !.upgradedTo = cb'.state]]
    /\ bpc' = [bpc EXCEPT ![p] = "reacquire"]
    /\ UNCHANGED <<cbmu, bret, executes, clock, outsideBreaker>>

\* canExecute: cb.mu.RLock() again, and return true
CanExecuteReacquire(p) ==
    /\ bpc[p] = "reacquire"
    /\ cbmu' = cbmu \cup {p}
    /\ obs' = [obs EXCEPT ![p] = [@ EXCEPT !.allowed = TRUE]]
    /\ bpc' = [bpc EXCEPT ![p] = "return"]
    /\ UNCHANGED <<cb, bret, transitions, executes, clock, outsideBreaker>>

\* canExecute returns (the deferred cb.mu.RUnlock()); Execute goes on to the
\* operation, or returns the error naming the state, which it reads without
\* the lock.
CanExecuteReturn(p) ==
    /\ bpc[p] = "return"
    /\ cbmu' = cbmu \ {p}
    /\ IF obs[p].allowed
       THEN /\ bpc' = [bpc EXCEPT ![p] = "operation"]
            /\ UNCHANGED bret
       ELSE /\ bpc' = [bpc EXCEPT ![p] = "done"]
            /\ bret' = [bret EXCEPT ![p] = Rejection(cb.state)]
    /\ UNCHANGED <<cb, obs, transitions, executes, clock, outsideBreaker>>

\* err := operation()
ExecuteOperation(p) ==
    /\ bpc[p] = "operation"
    /\ \E e \in {Nil, "database connection failed"} :
            /\ bret' = [bret EXCEPT ![p] = e]
            /\ obs' = [obs EXCEPT ![p] = [@ EXCEPT !.ran = TRUE, !.recErr = e]]
    /\ bpc' = [bpc EXCEPT ![p] = "recordResult"]
    /\ UNCHANGED <<cb, cbmu, transitions, executes, clock, outsideBreaker>>

\* cb.recordResult(err), under cb.mu.Lock(); return err
ExecuteRecordResult(p) ==
    /\ bpc[p] = "recordResult"
    /\ cbmu = {}
    /\ cb' = recordResult(cb, bret[p], clock)
    /\ transitions' = Logged(transitions, cb, cb', p, bret[p])
    /\ obs' = [obs EXCEPT ![p] = [@ EXCEPT !.wrote = @ \/ cb' # cb,
                                           !.recBefore = cb.state,
                                           !.recAfter = cb'.state,
                                           !.recCount = cb'.failureCount]]
    /\ bpc' = [bpc EXCEPT ![p] = "done"]
    /\ UNCHANGED <<cbmu, bret, executes, clock, outsideBreaker>>

\* the caller has the result and may call again
ExecuteReturn(p) ==
    /\ bpc[p] = "done"
    /\ bpc' = [bpc EXCEPT ![p] = "idle"]
    /\ UNCHANGED <<cb, cbmu, bret, obs, transitions, executes, clock, outsideBreaker>>

BreakerNext ==
    \/ BreakerTick
    \/ \E p \in Callers :
        \/ CallExecute(p)
        \/ CanExecuteRLock(p)
        \/ CanExecuteSwitch(p)
        \/ CanExecuteUpgrade(p)
        \/ CanExecuteReacquire(p)
        \/ CanExecuteReturn(p)
        \/ ExecuteOperation(p)
        \/ ExecuteRecordResult(p)
        \/ ExecuteReturn(p)

-----------------------------------------------------------------------------
(* RateLimiter: a token bucket refilled by whole seconds (lesson 5 of the  *)
(* advanced course).                                                       *)

\* The clock ticks twice a second, so that elapsed.Seconds() has a fraction
\* for int() to cut off.
TicksPerSecond == 2

\* NewRateLimiter: the bucket starts full.
NewRateLimiter(capacity, rate, time) ==
    [tokens |-> capacity, capacity |-> capacity, rate |-> rate, lastRefill |-> time]

min(a, b) == IF a < b THEN a ELSE b

\* int(elapsed.Seconds()) * rl.rate
TokensToAdd(r, time) == ((time - r.lastRefill) \div TicksPerSecond) * r.rate

\* A refill that does not stop at the capacity.
RefillUncapped(r, time) ==
    IF TokensToAdd(r, time) > 0
    THEN [r EXCEPT !.tokens = r.tokens + TokensToAdd(r, time), !.lastRefill = time]
    ELSE r

\* Allow, first half: refill tokens for the whole seconds since lastRefill.
Refill(r, time) ==
    IF TokensToAdd(r, time) > 0
    THEN [r EXCEPT !.tokens = min(r.capacity, r.tokens + TokensToAdd(r, time)),
                   !.lastRefill = time]
    ELSE r

\* Allow, second half: take a token if there is one.
Take(r) == IF r.tokens > 0 THEN [r EXCEPT !.tokens = @ - 1] ELSE r

LimiterStart(r) ==
    /\ rl = r
    /\ rlNow = 0
    /\ allowLog = <<>>

LimiterInit ==
    \E capacity \in 0..MaxCapacity, rate \in 0..MaxRate :
        LimiterStart(NewRateLimiter(capacity, rate, 0))

\* rateLimit: NewRateLimiter(10, 1)
LimiterIdle == LimiterStart(NewRateLimiter(10, 1, 0))

\* time passes
LimiterTick ==
    /\ rlNow < MaxTicks
    /\ rlNow' = rlNow + 1
    /\ UNCHANGED <<rl, allowLog, outsideLimiter>>

\* rl.Allow(), the whole of it under rl.mu
Allow ==
    /\ Len(allowLog) < MaxAllows
    /\ LET refilled == Refill(rl, rlNow)
       IN  /\ rl' = Take(refilled)
           /\ allowLog' = Append(allowLog,
                [before |-> rl.tokens, refilled |-> refilled.tokens,
                 after |-> rl'.tokens, ok |-> refilled.tokens > 0, at |-> rlNow])
    /\ UNCHANGED <<rlNow, outsideLimiter>>

LimiterNext == LimiterTick \/ Allow

-----------------------------------------------------------------------------
(* MessageQueue: Send, the workers and the dead-letter handler (lesson 5   *)
(* of the advanced course; Send is the same in lesson 7).                  *)

Workers == 1..NumWorkers

MessageIds == 1..MaxMessages

\* if message.Retries < 3
RetryLimit == 3

\* A retry test that lets a message through once more.
MayRetryInclusive(r) == r <= RetryLimit

\* message.Retries < 3
MayRetry(r) == r < RetryLimit

\* A test that takes a queue for full only beyond its capacity.
ChannelFullBeyond(ch, cap) == Len(ch) > cap

\* a send on a buffered channel cannot proceed
ChannelFull(ch, cap) == Len(ch) >= cap

\* The messages Send has been called with so far.
SentIds == 1..sent

NoSend == [msg |-> 0, before |-> <<>>, after |-> <<>>, err |-> Nil]

QueueStart ==
    /\ queue = <<>>
    /\ deadLetter = <<>>
    /\ retries = [m \in MessageIds |-> 0]
    /\ wpc = [w \in Workers |-> "range"]
    /\ wmsg = [w \in Workers |-> 0]
    /\ trail = [m \in MessageIds |-> <<>>]
    /\ sent = 0
    /\ lastSend = NoSend

\* NewMessageQueue and Start: empty channels, the workers waiting
QueueInit == QueueStart

\* queue: NewMessageQueue(3)
QueueIdle == QueueStart

\* mq.Send(message), with a message made for the call (Retries: 0)
Send ==
    /\ sent < MaxMessages
    /\ sent' = sent + 1
    /\ IF ChannelFull(queue, QueueCap)
       THEN /\ lastSend' = [msg |-> sent', before |-> queue, after |-> queue,
                            err |-> "queue is full"]
            /\ UNCHANGED <<queue, trail>>
       ELSE /\ queue' = Append(queue, sent')
            /\ lastSend' = [msg |-> sent', before |-> queue, after |-> queue',
                            err |-> Nil]
            /\ trail' = [trail EXCEPT ![sent'] = Append(@, "sent")]
    /\ UNCHANGED <<deadLetter, retries, wpc, wmsg, outsideQueue>>

\* worker: for message := range mq.queue
WorkerReceive(w) ==
    /\ wpc[w] = "range"
    /\ queue # <<>>
    /\ wmsg' = [wmsg EXCEPT ![w] = Head(queue)]
    /\ queue' = Tail(queue)
    /\ wpc' = [wpc EXCEPT ![w] = "process"]
    /\ UNCHANGED <<deadLetter, retries, trail, sent, lastSend, outsideQueue>>

\* worker: mq.processor.Process(message); on an error message.Retries++ and
\* the choice between the retry and the dead-letter queue
WorkerProcess(w) ==
    /\ wpc[w] = "process"
    /\ \E failed \in BOOLEAN :
        IF failed
        THEN /\ retries' = [retries EXCEPT ![wmsg[w]] = @ + 1]
             /\ trail' = [trail EXCEPT ![wmsg[w]] = Append(@, "failed")]
             /\ wpc' = [wpc EXCEPT ![w] =
                            IF MayRetry(retries'[wmsg[w]]) THEN "requeue" ELSE "dead"]
             /\ UNCHANGED wmsg
        ELSE /\ trail' = [trail EXCEPT ![wmsg[w]] = Append(@, "succeeded")]
             /\ wpc' = [wpc EXCEPT ![w] = "range"]
             /\ wmsg' = [wmsg EXCEPT ![w] = 0]
             /\ UNCHANGED retries
    /\ UNCHANGED <<queue, deadLetter, sent, lastSend, outsideQueue>>

\* worker: time.Sleep(...); mq.queue <- message, which waits for room
WorkerRequeue(w) ==
    /\ wpc[w] = "requeue"
    /\ ~ChannelFull(queue, QueueCap)
    /\ queue' = Append(queue, wmsg[w])
    /\ trail' = [trail EXCEPT ![wmsg[w]] = Append(@, "requeued")]
    /\ wpc' = [wpc EXCEPT ![w] = "range"]
    /\ wmsg' = [wmsg EXCEPT ![w] = 0]
    /\ UNCHANGED <<deadLetter, retries, sent, lastSend, outsideQueue>>

\* worker: mq.deadLetter <- message, which waits for room
WorkerDeadLetter(w) ==
    /\ wpc[w] = "dead"
    /\ ~ChannelFull(deadLetter, DeadCap)
    /\ deadLetter' = Append(deadLetter, wmsg[w])
    /\ trail' = [trail EXCEPT ![wmsg[w]] = Append(@, "dead")]
    /\ wpc' = [wpc EXCEPT ![w] = "range"]
    /\ wmsg' = [wmsg EXCEPT ![w] = 0]
    /\ UNCHANGED <<queue, retries, sent, lastSend, outsideQueue>>

\* deadLetterHandler: for message := range mq.deadLetter
DeadLetterHandler ==
    /\ deadLetter # <<>>
    /\ deadLetter' = Tail(deadLetter)
    /\ trail' = [trail EXCEPT ![Head(deadLetter)] = Append(@, "handled")]
    /\ UNCHANGED <<queue, retries, wpc, wmsg, sent, lastSend, outsideQueue>>

QueueNext ==
    \/ Send
    \/ DeadLetterHandler
    \/ \E w \in Workers :
        \/ WorkerReceive(w)
        \/ WorkerProcess(w)
        \/ WorkerRequeue(w)
        \/ WorkerDeadLetter(w)

-----------------------------------------------------------------------------
(* ConcurrentProcessor: Process and its workers (lesson 3 of the advanced  *)
(* course).                                                                *)

ProcWorkers == 1..MaxProcWorkers

\* make(chan ..., workers*2), for jobQueue and resultChan alike
ChanCap(workers) == workers * 2

\* NewConcurrentProcessor
NewConcurrentProcessor(workers) == [workers |-> workers]

\* &ProcessingResult{JobID: job.ID, ...}
ResultOf(job) == [JobID |-> job]

ProcessorStart(c, n) ==
    /\ cp = c
    /\ jobs = n
    /\ jobQueue = <<>>
    /\ jqClosed = FALSE
    /\ resultChan = <<>>
    /\ ppc = "idle"
    /\ submitted = 0
    /\ results = <<>>
    /\ cwpc = [w \in ProcWorkers |-> "off"]
    /\ cjob = [w \in ProcWorkers |-> 0]

ProcessorInit ==
    \E workers \in ProcWorkers, n \in 0..MaxJobs :
        ProcessorStart(NewConcurrentProcessor(workers), n)

\* concurrent: NewConcurrentProcessor(workers), in NewOptimizedProcessor(4)
ProcessorIdle == ProcessorStart(NewConcurrentProcessor(4), 0)

\* Process: for i := 0; i < cp.workers; i++ { go cp.worker() }
CallProcess ==
    /\ ppc = "idle"
    /\ ppc' = "submit"
    /\ cwpc' = [w \in ProcWorkers |-> IF w <= cp.workers THEN "range" ELSE "off"]
    /\ UNCHANGED <<cp, jobs, jobQueue, jqClosed, resultChan, submitted, results, cjob,
                   outsideProcessor>>

\* Process: cp.jobQueue <- &ProcessingJob{ID: i + 1, ...}, which waits for room
SubmitJob ==
    /\ ppc = "submit"
    /\ submitted < jobs
    /\ Len(jobQueue) < ChanCap(cp.workers)
    /\ jobQueue' = Append(jobQueue, submitted + 1)
    /\ submitted' = submitted + 1
    /\ UNCHANGED <<cp, jobs, jqClosed, resultChan, ppc, results, cwpc, cjob,
                   outsideProcessor>>

\* Process: close(cp.jobQueue) after the last job
CloseJobQueue ==
    /\ ppc = "submit"
    /\ submitted = jobs
    /\ jqClosed' = TRUE
    /\ ppc' = "collect"
    /\ UNCHANGED <<cp, jobs, jobQueue, resultChan, submitted, results, cwpc, cjob,
                   outsideProcessor>>

\* Process: result := <-cp.resultChan; results = append(results, result)
CollectResult ==
    /\ ppc = "collect"
    /\ Len(results) < jobs
    /\ resultChan # <<>>
    /\ results' = Append(results, Head(resultChan))
    /\ resultChan' = Tail(resultChan)
    /\ UNCHANGED <<cp, jobs, jobQueue, jqClosed, ppc, submitted, cwpc, cjob,
                   outsideProcessor>>

\* Process: return results
ReturnResults ==
    /\ ppc = "collect"
    /\ Len(results) = jobs
    /\ ppc' = "done"
    /\ UNCHANGED <<cp, jobs, jobQueue, jqClosed, resultChan, submitted, results, cwpc,
                   cjob, outsideProcessor>>

\* worker: for job := range cp.jobQueue, and processMessage
ProcWorkerTake(w) ==
    /\ cwpc[w] = "range"
    /\ jobQueue # <<>>
    /\ cjob' = [cjob EXCEPT ![w] = Head(jobQueue)]
    /\ jobQueue' = Tail(jobQueue)
    /\ cwpc' = [cwpc EXCEPT ![w] = "send"]
    /\ UNCHANGED <<cp, jobs, jqClosed, resultChan, ppc, submitted, results,
                   outsideProcessor>>

\* worker: cp.resultChan <- result, which waits for room
ProcWorkerSend(w) ==
    /\ cwpc[w] = "send"
    /\ Len(resultChan) < ChanCap(cp.workers)
    /\ resultChan' = Append(resultChan, ResultOf(cjob[w]))
    /\ cjob' = [cjob EXCEPT ![w] = 0]
    /\ cwpc' = [cwpc EXCEPT ![w] = "range"]
    /\ UNCHANGED <<cp, jobs, jobQueue, jqClosed, ppc, submitted, results,
                   outsideProcessor>>

\* worker: the range loop ends on the closed and drained channel
ProcWorkerExit(w) ==
    /\ cwpc[w] = "range"
    /\ jobQueue = <<>>
    /\ jqClosed
    /\ cwpc' = [cwpc EXCEPT ![w] = "exit"]
    /\ UNCHANGED <<cp, jobs, jobQueue, jqClosed, resultChan, ppc, submitted, results,
                   cjob, outsideProcessor>>

ProcessorNext ==
    \/ CallProcess
    \/ SubmitJob
    \/ CloseJobQueue
    \/ CollectResult
    \/ ReturnResults
    \/ \E w \in ProcWorkers :
        \/ ProcWorkerTake(w)
        \/ ProcWorkerSend(w)
        \/ ProcWorkerExit(w)

-----------------------------------------------------------------------------
(* MessageCache: Get, Set and Expired (lesson 3 of the advanced course).   *)

CacheKeys == {"UNH+1'", "UNH+2'"}

\* NewMessageCache
NewMessageCache(ttl) == [ttl |-> ttl]

\* An expiry test with the comparison turned round.
ExpiredBefore(cm, time) == time < cm.Expiration

\* CachedMessage.Expired: time.Now().After(cm.Expiration)
Expired(cm, time) == time > cm.Expiration

\* MessageCache.Get: the entry and true when the key is present and its
\* entry has not expired, nil and false otherwise
Get(c, key, time) ==
    IF c[key] # <<>> /\ ~Expired(c[key][1], time)
    THEN [cached |-> c[key], exists |-> TRUE]
    ELSE [cached |-> <<>>, exists |-> FALSE]

\* MessageCache.Set: a new entry for the key, expiring ttl from now
Set(c, key, segments, ttl, time) ==
    [c EXCEPT ![key] = <<[Segments |-> segments, Processed |-> time,
                          Expiration |-> time + ttl]>>]

NoGet == [key |-> "", at |-> 0, cached |-> <<>>, exists |-> FALSE, latest |-> <<>>]

CacheStart(m) ==
    /\ mc = m
    /\ cache = [k \in CacheKeys |-> <<>>]
    /\ mcNow = 0
    /\ lastSet = [k \in CacheKeys |-> <<>>]
    /\ lastGet = NoGet

CacheInit == \E ttl \in 0..MaxTtl : CacheStart(NewMessageCache(ttl))

\* cache: NewMessageCache(5 * time.Minute)
CacheIdle == CacheStart(NewMessageCache(300))

\* time passes
CacheTick ==
    /\ mcNow < MaxCacheTime
    /\ mcNow' = mcNow + 1
    /\ UNCHANGED <<mc, cache, lastSet, lastGet, outsideCache>>

\* mc.Get(key), the whole of it under mc.mu.RLock
CacheGet(key) ==
    /\ lastGet' = [key |-> key, at |-> mcNow,
                   cached |-> Get(cache, key, mcNow).cached,
                   exists |-> Get(cache, key, mcNow).exists,
                   latest |-> lastSet[key]]
    /\ UNCHANGED <<mc, cache, mcNow, lastSet, outsideCache>>

\* mc.Set(key, segments), the whole of it under mc.mu.Lock
CacheSet(key, segments) ==
    /\ cache' = Set(cache, key, segments, mc.ttl, mcNow)
    /\ lastSet' = [lastSet EXCEPT ![key] = <<[segments |-> segments, at |-> mcNow]>>]
    /\ UNCHANGED <<mc, mcNow, lastGet, outsideCache>>

CacheNext ==
    \/ CacheTick
    \/ \E key \in CacheKeys :
        \/ CacheGet(key)
        \/ \E segments \in 1..MaxSegments : CacheSet(key, segments)

-----------------------------------------------------------------------------
(* Specifications: one per component, the other components at rest.        *)

InitText == TextInit /\ DispatchInit /\ MessageIdle /\ RetryIdle /\ BreakerIdle /\ LimiterIdle /\ QueueIdle /\ ProcessorIdle /\ CacheIdle

SpecText == InitText /\ [][TextNext]_vars

InitDispatch == DispatchInit /\ TextIdle /\ MessageIdle /\ RetryIdle /\ BreakerIdle /\ LimiterIdle /\ QueueIdle /\ ProcessorIdle /\ CacheIdle

SpecDispatch == InitDispatch /\ [][DispatchNext]_vars

InitMessage == MessageInit /\ TextIdle /\ DispatchInit /\ RetryIdle /\ BreakerIdle /\ LimiterIdle /\ QueueIdle /\ ProcessorIdle /\ CacheIdle

SpecMessage == InitMessage /\ [][MessageNext]_vars

InitRetry == RetryInit /\ TextIdle /\ DispatchInit /\ MessageIdle /\ BreakerIdle /\ LimiterIdle /\ QueueIdle /\ ProcessorIdle /\ CacheIdle

SpecRetry == InitRetry /\ [][RetryNext]_vars

InitBreaker == BreakerInit /\ TextIdle /\ DispatchInit /\ MessageIdle /\ RetryIdle /\ LimiterIdle /\ QueueIdle /\ ProcessorIdle /\ CacheIdle

SpecBreaker == InitBreaker /\ [][BreakerNext]_vars

InitLimiter == LimiterInit /\ TextIdle /\ DispatchInit /\ MessageIdle /\ RetryIdle /\ BreakerIdle /\ QueueIdle /\ ProcessorIdle /\ CacheIdle

SpecLimiter == InitLimiter /\ [][LimiterNext]_vars

InitQueue == QueueInit /\ TextIdle /\ DispatchInit /\ MessageIdle /\ RetryIdle /\ BreakerIdle /\ LimiterIdle /\ ProcessorIdle /\ CacheIdle

SpecQueue == InitQueue /\ [][QueueNext]_vars

\* The goroutines Start launched keep running whenever they can take a step;
\* nothing obliges anyone to call Send.
QueueFairness ==
    /\ WF_vars(DeadLetterHandler)
    /\ \A w \in Workers :
        /\ WF_vars(WorkerReceive(w))
        /\ WF_vars(WorkerProcess(w))
        /\ WF_vars(WorkerRequeue(w))
        /\ WF_vars(WorkerDeadLetter(w))

SpecQueueLive == InitQueue /\ [][QueueNext]_vars /\ QueueFairness

InitProcessor == ProcessorInit /\ TextIdle /\ DispatchInit /\ MessageIdle /\ RetryIdle /\ BreakerIdle /\ LimiterIdle /\ QueueIdle /\ CacheIdle

SpecProcessor == InitProcessor /\ [][ProcessorNext]_vars

\* Process and the workers it started keep running whenever they can take a
\* step.
ProcessorFairness ==
    /\ WF_vars(CallProcess)
    /\ WF_vars(SubmitJob)
    /\ WF_vars(CloseJobQueue)
    /\ WF_vars(CollectResult)
    /\ WF_vars(ReturnResults)
    /\ \A w \in ProcWorkers :
        /\ WF_vars(ProcWorkerTake(w))
        /\ WF_vars(ProcWorkerSend(w))
        /\ WF_vars(ProcWorkerExit(w))

SpecProcessorLive == InitProcessor /\ [][ProcessorNext]_vars /\ ProcessorFairness

InitCache == CacheInit /\ TextIdle /\ DispatchInit /\ MessageIdle /\ RetryIdle /\ BreakerIdle /\ LimiterIdle /\ QueueIdle /\ ProcessorIdle

SpecCache == InitCache /\ [][CacheNext]_vars

-----------------------------------------------------------------------------
(* Properties of the segment pipeline.                                     *)

\* The segment string ParseSegment splits: the input less one trailing terminator.
Body(s) == TrimSuffix(s, SegmentTerminator)

SeparatorPositions(s) == {i \in 1..Len(s) : s[i] = DataElementSeparator}

\* The number of the element that starts right after the separator at position i.
ElementAfter(s, i) == Cardinality({j \in SeparatorPositions(s) : j <= i})

\* C5: parsing preserves empty elements.  NAD+BY+++NAME' parses to exactly four
\* elements of which the second and the third are empty strings; in general
\* there is one element per element separator, and a separator that is directly
\* followed by another separator or that ends the segment yields an empty
\* element at its position.
C5_EmptyElementsPreserved ==
    step = "parsed" =>
        LET body == Body(raw)
        IN  /\ Len(seg.Elements) = Cardinality(SeparatorPositions(body))
            /\ \A i \in SeparatorPositions(body) :
                  (i = Len(body) \/ body[i + 1] = DataElementSeparator) =>
                      /\ seg.Elements[ElementAfter(body, i)].Value = <<>>
                      /\ seg.Elements[ElementAfter(body, i)].IsEmpty
            /\ \A k \in 1..Len(seg.Elements) : seg.Elements[k].Position = k
            /\ raw = NADExample =>
                  /\ seg.Tag = <<"N","A","D">>
                  /\ ElementValues(seg) = << <<"B","Y">>, <<>>, <<>>, <<"N","A","M","E">> >>

C5_Witness ==
    /\ step = "parsed"
    /\ raw = NADExample
    /\ Len(seg.Elements) = 4
    /\ seg.Elements[2].IsEmpty
    /\ seg.Elements[3].IsEmpty

\* C6: escaping round-trips through the tokenizer.  A string s is escaped, put
\* into a segment as its only element, serialized, tokenized and unescaped: the
\* result is again the single element s, so no escaped delimiter caused a split.
C6_EscapeRoundTrip ==
    step = "unescaped" =>
        /\ Len(seg2.Elements) = 1
        /\ unesc = <<raw>>

\* C7: parse, serialize, parse is stable.  The segment parsed from the
\* serialized text has the same tag, the same elements in the same order and
\* the same components in the same order as the segment parsed first, and a
\* composite element's components survive their own ToString and re-parse.
C7_ParseSerializeParseStable ==
    step = "reparsed" =>
        /\ seg2.Tag = seg.Tag
        /\ seg2.Elements = seg.Elements
        /\ \A k \in 1..Len(seg.Elements) :
              LET c == ParseCompositeElement(seg.Elements[k].Value)
              IN  /\ ParseCompositeElement(CompositeToString(c)) = c
                  /\ seg.Elements[k].IsComposite =>
                        seg2.Elements[k].Components = c.Components

C7_Witness ==
    /\ step = "reparsed"
    /\ raw = UNHExample
    /\ Len(seg2.Elements) = 2
    /\ seg2.Elements[2].IsComposite
    /\ Len(seg2.Elements[2].Components) = 4

-----------------------------------------------------------------------------
(* Properties of the MessageDetector.                                      *)

Done(p) == pc[p] = "det_done"

DetectedType(p) == args[p].message.MessageType

\* The handlers registered for message type t among the first n registrations,
\* in registration order.
RegisteredFor(t, n) ==
    LET regs == SelectSeq(SubSeq(regLog, 1, n), LAMBDA r : r.msgType = t)
    IN  [i \in 1..Len(regs) |-> regs[i].handler]

\* The registrations for the detected type that were stored when p read the map.
Candidates(p) == RegisteredFor(DetectedType(p), local[p].seenAtRead)

TwoCandidates(p) ==
    /\ Len(Candidates(p)) >= 2
    /\ Candidates(p)[1] # Candidates(p)[Len(Candidates(p))]

NeverRegistered(t) == \A i \in 1..Len(regLog) : regLog[i].msgType # t

\* C2: dispatching a message whose type has no registered handler, also when
\* nothing at all is registered, never returns an error: only the generic
\* fallback runs, and it returns nil.
C2_UnregisteredTypeFallsBack ==
    \A p \in Procs :
        (Done(p) /\ NeverRegistered(DetectedType(p))) =>
            /\ ret[p] = Nil
            /\ invoked[p] = <<fallback>>

C2_Witness ==
    \E p \in Procs :
        /\ Done(p)
        /\ NeverRegistered(DetectedType(p))
        /\ Len(regLog) >= 1
        /\ args[p].message.Number = ""
        /\ ret[p] = Nil

\* The error each handler's validation returns for a message without a number.
ValidationError(h) ==
    IF h = "InvoiceHandler" THEN "validation failed: invoice number is required"
    ELSE "validation failed: order number is required"

\* C3: when the selected handler fails, dispatch returns that handler's error
\* as it is, no other handler runs (neither another registered handler nor
\* the fallback), and the failed handler runs once only.
C3_HandlerErrorPropagates ==
    \A p \in Procs :
        (Done(p) /\ local[p].exists /\ args[p].message.Number = "") =>
            /\ ret[p] = ValidationError(local[p].handler)
            /\ invoked[p] = <<local[p].handler>>

C3_Witness ==
    \E p \in Procs :
        /\ Done(p)
        /\ local[p].exists
        /\ local[p].handler = "InvoiceHandler"
        /\ ret[p] = "validation failed: invoice number is required"
        /\ invoked[p] = <<"InvoiceHandler">>

\* The goroutines between Lock and Unlock of RegisterHandler.
Registering == {p \in Procs : pc[p] \in {"reg_store", "reg_unlock"}}

\* The handler a dispatch of type t selects when it runs alone on registry h.
SelectedAlone(h, t) == IF h[t] # NoHandler THEN h[t] ELSE fallback

-----------------------------------------------------------------------------
(* Properties of the message pipeline.                                     *)

\* C8: for the header UNH+1+INVOIC:D:97A:UN' detection returns type INVOIC,
\* release D and version 97A (and agency UN): the components of the header's
\* second element are read in the order message type, release, version, agency.
C8_HeaderComponentsInOrder ==
    (mstep = "extracted" /\ rawContent = UNHExample) =>
        /\ UNH \in DOMAIN serviceSegs
        /\ serviceSegs[UNH].MessageType = <<"I","N","V","O","I","C">>
        /\ serviceSegs[UNH].Release = <<"D">>
        /\ serviceSegs[UNH].Version = <<"9","7","A">>

\* The raw pieces of a message in reading order: every non-empty segment's
\* tag followed by the raw text of each of its elements.
RECURSIVE RawTokens(_, _)
RawTokens(pieces, i) ==
    IF i > Len(pieces) THEN <<>>
    ELSE (IF pieces[i] = <<>> THEN <<>> ELSE Split(pieces[i], DataElementSeparator))
         \o RawTokens(pieces, i + 1)

Occurrences(t) ==
    LET same == SelectSeq(tree.Segments, LAMBDA sg : sg.Tag = t)
    IN  [i \in 1..Len(same) |-> SegmentData(same[i])]

\* The entries found under tag t in the converted message: Data holds one
\* segmentData value per key.
EntriesUnder(t) == IF t \in DOMAIN nested.Data THEN <<nested.Data[t]>> ELSE <<>>

\* C10: in the conversion keyed by segment tag, segments with repeated tags
\* accumulate: k segments sharing a tag leave k entries under that tag, in
\* input order, and no occurrence is lost or overwritten.
C10_RepeatedTagsAccumulate ==
    mstep = "nested" =>
        \A i \in 1..Len(tree.Segments) :
            tree.Segments[i].Tag # <<>> =>
                EntriesUnder(tree.Segments[i].Tag) = Occurrences(tree.Segments[i].Tag)

-----------------------------------------------------------------------------
(* C11: parsing keeps every segment, in input order, whatever its tag.     *)

\* The non-empty runs of characters between segment terminators, scanned
\* from left to right.
RECURSIVE PiecesOf(_, _, _)
PiecesOf(s, i, cur) ==
    LET emit == IF cur = <<>> THEN <<>> ELSE <<cur>>
    IN  IF i > Len(s) THEN emit
        ELSE IF s[i] = SegmentTerminator THEN emit \o PiecesOf(s, i + 1, <<>>)
        ELSE PiecesOf(s, i + 1, Append(cur, s[i]))

\* The text of a parsed segment: its tag and elements, separated again.
SegmentText(segment) == Join(<<segment.Tag>> \o segment.Elements, DataElementSeparator)

\* C11: the parsed message holds exactly one segment for each non-empty piece
\* of the input, in the order of the input, and each segment carries the text
\* of its piece, whether or not its tag is a known one.
C11_SegmentsPreservedInOrder ==
    mstep \in {"parsed", "extracted"} =>
        LET pieces == PiecesOf(rawContent, 1, <<>>)
        IN  /\ Len(msg.Segments) = Len(pieces)
            /\ \A i \in 1..Len(pieces) :
                    /\ SegmentText(msg.Segments[i]) = pieces[i]
                    /\ msg.Segments[i].Raw = pieces[i] \o <<SegmentTerminator>>
            /\ \A i, j \in 1..Len(msg.Segments) :
                    i < j => msg.Segments[i].Position < msg.Segments[j].Position

\* Two segments with different unknown tags have been parsed.
C11_Witness ==
    /\ mstep = "parsed"
    /\ Len(msg.Segments) = 2
    /\ msg.Segments[1].Tag = <<"a">>
    /\ msg.Segments[2].Tag = <<"b">>

-----------------------------------------------------------------------------
(* C12: empty raw input is rejected.                                       *)

\* C12: parsing empty raw input fails: ParseSegment returns an error and
\* does not return an empty segment.
C12_EmptyInputRejected ==
    (step = "parsed" /\ raw = <<>>) =>
        /\ err # Nil
        /\ seg # NewEDIFACTSegment(<<>>)

-----------------------------------------------------------------------------
(* C13: processing a message for its service segments is pure.             *)

\* The service-segment entries without the time they were extracted at.
Unstamped(segs) == [t \in DOMAIN segs |-> [segs[t] EXCEPT !.Timestamp = 0]]

-----------------------------------------------------------------------------
(* C14: the two representations of an element.                             *)

\* C14: every parsed element has exactly one representation populated: a
\* simple element only its value and no components, a composite element only
\* its component list, and IsComposite is true exactly for the latter.
C14_ExactlyOneRepresentation ==
    step = "parsed" =>
        \A i \in 1..Len(seg.Elements) :
            LET element == seg.Elements[i]
            IN  /\ ~element.IsComposite => element.Components = <<>>
                /\ element.IsComposite =>
                        element.Components # <<>> /\ element.Value = <<>>

\* C14 as amended: a simple element carries its value and no components; a
\* composite element carries its component list and also keeps the unsplit
\* text in its value, which is the components joined by the component
\* separator; IsComposite is true exactly for the elements with components.
C14_CompositeKeepsValue ==
    step = "parsed" =>
        \A i \in 1..Len(seg.Elements) :
            LET element == seg.Elements[i]
            IN  /\ element.IsComposite <=> element.Components # <<>>
                /\ ~element.IsComposite =>
                        ~Contains(element.Value, ComponentSeparator)
                /\ element.IsComposite =>
                        /\ Len(element.Components) >= 2
                        /\ Join(element.Components, ComponentSeparator) = element.Value
                        /\ \A k \in 1..Len(element.Components) :
                                ~Contains(element.Components[k], ComponentSeparator)

\* The header example has been parsed: a simple element and a composite one
\* of four components.
C14_Witness ==
    /\ step = "parsed"
    /\ raw = UNHExample
    /\ ~seg.Elements[1].IsComposite
    /\ seg.Elements[2].IsComposite
    /\ Len(seg.Elements[2].Components) = 4

-----------------------------------------------------------------------------
(* C15: the references of the header and of the trailer must match.        *)

SegmentsTagged(tag) == {i \in 1..Len(msg.Segments) : msg.Segments[i].Tag = tag}

\* The message has one header and one trailer, each with its reference element.
OneEnvelope ==
    /\ Cardinality(SegmentsTagged(UNH)) = 1
    /\ Cardinality(SegmentsTagged(UNT)) = 1
    /\ \A i \in SegmentsTagged(UNH) : Len(msg.Segments[i].Elements) >= 1
    /\ \A i \in SegmentsTagged(UNT) : Len(msg.Segments[i].Elements) >= 2

HeaderRef == msg.Segments[CHOOSE i \in SegmentsTagged(UNH) : TRUE].Elements[1]
TrailerRef == msg.Segments[CHOOSE i \in SegmentsTagged(UNT) : TRUE].Elements[2]

IsMismatch(e) == "text" \in DOMAIN e /\ e.text = "Reference number mismatch"

MismatchErrors == {k \in 1..Len(result.Errors) : IsMismatch(result.Errors[k])}

\* C15: a message whose header reference differs from its trailer reference
\* is reported invalid with a reference-mismatch error, by ProcessMessage and
\* by the reference_matching rule, and a message with equal references gets
\* no such error.
C15_ReferenceMismatchReported ==
    OneEnvelope =>
        /\ mstep = "extracted" =>
                /\ HeaderRef # TrailerRef => ~result.Valid /\ MismatchErrors # {}
                /\ HeaderRef = TrailerRef => MismatchErrors = {}
        /\ mstep = "validated" =>
                (HeaderRef # TrailerRef <=> findings.reference_matching # <<>>)

\* What the code does report: a mismatch of two non-empty references, and
\* nothing for equal references.
ReferenceMismatchReportedWhenPresent ==
    (OneEnvelope /\ HeaderRef # <<>> /\ TrailerRef # <<>>) =>
        /\ mstep = "extracted" =>
                /\ HeaderRef # TrailerRef => ~result.Valid /\ MismatchErrors # {}
                /\ HeaderRef = TrailerRef => MismatchErrors = {}
        /\ mstep = "validated" =>
                (HeaderRef # TrailerRef <=> findings.reference_matching # <<>>)

-----------------------------------------------------------------------------
(* C16: a wrong segment count in the trailer is detected.                  *)

DeclaredCount == msg.Segments[CHOOSE i \in SegmentsTagged(UNT) : TRUE].Elements[1]

\* The declared count is wrong whether the header and the trailer are counted
\* (all segments of the message) or not (two fewer).
WrongCount ==
    /\ DeclaredCount # Itoa(Len(msg.Segments))
    /\ DeclaredCount # Itoa(Len(msg.Segments) - 2)

CountWarnings ==
    {k \in 1..Len(result.Warnings) : result.Warnings[k].text = "Segment count mismatch"}

\* C16: whenever the count declared in the trailer does not match the
\* segment count of the message, the validator reports a segment-count
\* finding.
C16_WrongSegmentCountReported ==
    (OneEnvelope /\ WrongCount) =>
        /\ mstep = "validated" => findings.segment_count # <<>>
        /\ mstep = "extracted" => CountWarnings # {}

\* What ProcessMessage of lesson 6 reports: a warning exactly when the
\* declared count is not the number of segments less two.
CountWarningWhenNotBodyCount ==
    (OneEnvelope /\ mstep = "extracted") =>
        (CountWarnings # {} <=> DeclaredCount # Itoa(Len(msg.Segments) - 2))

\* The segment_count rule of lesson 7 never reports anything.
SegmentCountRuleSilent == findings.segment_count = <<>>

-----------------------------------------------------------------------------
(* C17: ExecuteWithRetry is bounded.                                       *)

Failed(k) == opLog[k] # Nil

\* C17: the operation is invoked at most maxRetries+1 times; nil is returned
\* at the first successful invocation and the operation is not invoked again;
\* when all maxRetries+1 invocations fail, the call stops and returns an
\* error wrapping the last failure.
C17_RetryBounded ==
    /\ Len(opLog) <= rh.maxRetries + 1
    /\ \A k \in 1..(Len(opLog) - 1) : Failed(k)
    /\ rpc = "done" =>
            /\ opLog # <<>>
            /\ ~Failed(Len(opLog)) => rret = <<>>
            /\ Failed(Len(opLog)) =>
                    /\ Len(opLog) = rh.maxRetries + 1
                    /\ rret # <<>>
                    /\ rret[1].wrapped = opLog[Len(opLog)]
                    /\ rret[1].attempts = rh.maxRetries + 1
    /\ rpc # "done" => rret = <<>>

\* Three invocations have failed, the first and the last differently, and
\* the call has returned.
C17_Witness ==
    /\ rpc = "done"
    /\ rh.maxRetries = 2
    /\ Len(opLog) = 3
    /\ opLog[1] # opLog[3]
    /\ rret # <<>>
    /\ Len(slept) = 2

-----------------------------------------------------------------------------
(* C18: an Execute whose canExecute found the breaker Open with no more    *)
(* than the timeout gone since the last recorded failure does not invoke   *)
(* the operation, writes neither the state nor the failure count, and      *)
(* returns an error.                                                       *)

\* The goroutine's current Execute found the breaker Open before the timeout.
SawOpenInTime(p) ==
    /\ bpc[p] \notin {"idle", "canExecute", "switch"}
    /\ obs[p].seenState = StateOpen
    /\ obs[p].since <= cb.timeout

C18_OpenRejectsWithoutEffect ==
    \A p \in Callers :
        SawOpenInTime(p) =>
            /\ ~obs[p].ran
            /\ ~obs[p].wrote
            /\ bpc[p] \in {"return", "done"}
            /\ bpc[p] = "done" => bret[p] # Nil

C18_Witness ==
    \E p \in Callers :
        /\ SawOpenInTime(p)
        /\ bpc[p] = "done"
        /\ bret[p] = Rejection(StateOpen)
        /\ obs[p].since = cb.timeout

-----------------------------------------------------------------------------
(* C19: a breaker constructed Closed stays Closed, and every Execute runs  *)
(* the operation, as long as fewer than failureThreshold failures have     *)
(* been recorded; it leaves Closed for Open exactly at the failed          *)
(* operation that brings the failure count to failureThreshold or more.    *)

\* The breaker has been Closed ever since NewCircuitBreaker.
NeverLeftClosed == transitions = <<>>

-----------------------------------------------------------------------------
(* C20: an Execute that finds the breaker Open with more than the timeout  *)
(* gone since the last failure sets it to HalfOpen and runs the operation; *)
(* a successful operation recorded in HalfOpen closes the breaker and      *)
(* clears the failure count, and a failed one recorded in HalfOpen opens   *)
(* it again.                                                               *)

\* The goroutine's current Execute found the breaker Open after the timeout.
SawOpenTimedOut(p) ==
    /\ bpc[p] \notin {"idle", "canExecute", "switch"}
    /\ obs[p].seenState = StateOpen
    /\ obs[p].since > cb.timeout

\* The goroutine's current Execute has recorded its result in HalfOpen.
RecordedInHalfOpen(p) ==
    /\ bpc[p] = "done"
    /\ obs[p].ran
    /\ obs[p].recBefore = StateHalfOpen

C20_HalfOpenProbe ==
    \A p \in Callers :
        /\ SawOpenTimedOut(p) =>
            /\ bpc[p] # "upgrade" => obs[p].upgradedTo = StateHalfOpen
            /\ bpc[p] \in {"return", "operation"} => obs[p].allowed
            /\ bpc[p] \in {"recordResult", "done"} => obs[p].ran
        /\ RecordedInHalfOpen(p) /\ obs[p].recErr = Nil =>
            obs[p].recAfter = StateClosed /\ obs[p].recCount = 0
        /\ RecordedInHalfOpen(p) /\ obs[p].recErr # Nil =>
            obs[p].recAfter = StateOpen

C20_Witness ==
    \E p \in Callers :
        /\ SawOpenTimedOut(p)
        /\ RecordedInHalfOpen(p)
        /\ obs[p].recErr = Nil
        /\ cb.state = StateClosed
        /\ cb.failureCount = 0

-----------------------------------------------------------------------------
(* C21: under every interleaving of Execute calls the state of one         *)
(* breaker changes only from Closed to Open, from Open to HalfOpen, from   *)
(* HalfOpen to Closed and from HalfOpen to Open; a call that saw the       *)
(* breaker Open never sets to HalfOpen a breaker that has been closed      *)
(* since.                                                                  *)

LegalChanges ==
    {<<StateClosed, StateOpen>>, <<StateOpen, StateHalfOpen>>,
     <<StateHalfOpen, StateClosed>>, <<StateHalfOpen, StateOpen>>}

C21_OnlyLegalChanges ==
    \A i \in 1..Len(transitions) :
        <<transitions[i].from, transitions[i].to>> \in LegalChanges

\* What does hold: the only other change is the one from Closed to HalfOpen,
\* made by canExecute.
OnlyStaleUpgradeIsIllegal ==
    \A i \in 1..Len(transitions) :
        \/ <<transitions[i].from, transitions[i].to>> \in LegalChanges
        \/ /\ transitions[i].from = StateClosed
           /\ transitions[i].to = StateHalfOpen
           /\ transitions[i].err = Nil

-----------------------------------------------------------------------------
(* C22: a successful operation recorded while the breaker is Closed leaves *)
(* the failure count at 0, so that only failureThreshold failures in a row *)
(* open the breaker.                                                       *)

\* The goroutine's current Execute has recorded a success in Closed.
RecordedSuccessInClosed(p) ==
    /\ bpc[p] = "done"
    /\ obs[p].ran
    /\ obs[p].recBefore = StateClosed
    /\ obs[p].recErr = Nil

C22_SuccessClearsCount ==
    \A p \in Callers : RecordedSuccessInClosed(p) => obs[p].recCount = 0

\* What the code does instead: a success in Closed leaves the breaker Closed,
\* with whatever count the failures before it have left.
SuccessInClosedStaysClosed ==
    \A p \in Callers :
        RecordedSuccessInClosed(p) => obs[p].recAfter = StateClosed

-----------------------------------------------------------------------------
(* C23: after any sequence of Allow calls the token count is within        *)
(* 0..capacity, an Allow that returns true takes exactly one token and one *)
(* that returns false takes none, and the number of calls allowed is at    *)
(* most capacity plus rate times the whole seconds since construction.     *)

RECURSIVE AllowedIn(_)
AllowedIn(log) ==
    IF log = <<>> THEN 0
    ELSE AllowedIn(SubSeq(log, 1, Len(log) - 1)) + (IF log[Len(log)].ok THEN 1 ELSE 0)

WholeSeconds == rlNow \div TicksPerSecond

C23_TokenBucketBounded ==
    /\ rl.tokens \in 0..rl.capacity
    /\ \A i \in 1..Len(allowLog) :
        /\ allowLog[i].refilled \in 0..rl.capacity
        /\ allowLog[i].ok => allowLog[i].after = allowLog[i].refilled - 1
        /\ ~allowLog[i].ok => allowLog[i].after = 0 /\ allowLog[i].refilled = 0
    /\ AllowedIn(allowLog) <= rl.capacity + rl.rate * WholeSeconds

\* The bucket was emptied, refilled after a second and a half, and the bound
\* on the calls allowed is met exactly.
C23_Witness ==
    /\ rl.capacity > 0
    /\ rl.rate > 0
    /\ \E i \in 1..Len(allowLog) : ~allowLog[i].ok
    /\ \E i \in 1..Len(allowLog) :
        /\ allowLog[i].ok
        /\ allowLog[i].before = 0
        /\ allowLog[i].at % TicksPerSecond # 0
    /\ AllowedIn(allowLog) = rl.capacity + rl.rate * WholeSeconds

-----------------------------------------------------------------------------
(* C24: a message is processed at most 3 times; after its third failure it *)
(* is put on the dead-letter queue, once, and is neither processed nor     *)
(* re-queued afterwards; a message whose processing succeeded is never put *)
(* on the dead-letter queue.                                               *)

RECURSIVE Count(_, _)
Count(s, e) ==
    IF s = <<>> THEN 0
    ELSE Count(Tail(s), e) + (IF Head(s) = e THEN 1 ELSE 0)

\* The events of a trail after its first "dead".
RECURSIVE AfterDead(_)
AfterDead(s) ==
    IF s = <<>> THEN <<>>
    ELSE IF Head(s) = "dead" THEN Tail(s) ELSE AfterDead(Tail(s))

Processed(m) == Count(trail[m], "failed") + Count(trail[m], "succeeded")

\* A worker holds the message and is about to put it on the dead-letter queue.
BoundForDeadLetter(m) == \E w \in Workers : wmsg[w] = m /\ wpc[w] = "dead"

C24_DeadLetterAfterThreeFailures ==
    \A m \in MessageIds :
        /\ Processed(m) <= 3
        /\ Count(trail[m], "dead") <= 1
        /\ Count(trail[m], "failed") = 3 =>
            Count(trail[m], "dead") = 1 \/ BoundForDeadLetter(m)
        /\ Count(trail[m], "dead") = 1 =>
            /\ Count(trail[m], "failed") = 3
            /\ Count(trail[m], "succeeded") = 0
            /\ AfterDead(trail[m]) \in {<<>>, <<"handled">>}
            /\ \A i \in 1..Len(queue) : queue[i] # m
        /\ Count(trail[m], "succeeded") > 0 =>
            /\ Count(trail[m], "dead") = 0
            /\ trail[m][Len(trail[m])] = "succeeded"
            /\ \A i \in 1..Len(deadLetter) : deadLetter[i] # m

\* One message failed three times and was handled as a dead letter, another
\* succeeded after a failure.
C24_Witness ==
    \E m, n \in MessageIds :
        /\ trail[m] = <<"sent", "failed", "requeued", "failed", "requeued",
                        "failed", "dead", "handled">>
        /\ trail[n] = <<"sent", "failed", "requeued", "succeeded">>

-----------------------------------------------------------------------------
(* C25: every message Send has accepted is eventually processed with       *)
(* success or handed to the dead-letter handler; no worker waits forever   *)
(* to re-queue a failed message or to write to the dead-letter channel.    *)

Accepted(m) == Count(trail[m], "sent") > 0

Settled(m) == Count(trail[m], "succeeded") > 0 \/ Count(trail[m], "handled") > 0

C25_EveryMessageSettles == \A m \in MessageIds : Accepted(m) ~> Settled(m)

\* The state no worker leaves: the queue is full and every worker waits to
\* put a failed message back on it.
AllWorkersWaitToRequeue ==
    /\ ChannelFull(queue, QueueCap)
    /\ \A w \in Workers : wpc[w] = "requeue"

\* Once the workers are all waiting on a full queue they wait for ever.
WaitToRequeueIsForEver ==
    [][AllWorkersWaitToRequeue => AllWorkersWaitToRequeue' /\ queue' = queue]_vars

\* Writing to the dead-letter channel, by contrast, never waits for ever.
DeadLetterWriteProceeds ==
    \A w \in Workers : wpc[w] = "dead" ~> wpc[w] # "dead"

-----------------------------------------------------------------------------
(* C26: Send never waits; called on a queue that holds its full capacity   *)
(* it returns the error "queue is full" and leaves the queue as it was,    *)
(* and otherwise it puts the message at the tail and returns nil.          *)

C26_SendNeverBlocks ==
    /\ sent < MaxMessages => ENABLED Send
    /\ lastSend.msg # 0 =>
        IF Len(lastSend.before) = QueueCap
        THEN /\ lastSend.err = "queue is full"
             /\ lastSend.after = lastSend.before
        ELSE /\ lastSend.err = Nil
             /\ lastSend.after = Append(lastSend.before, lastSend.msg)

\* A Send was turned away by a full queue, whose messages are those of the
\* Sends before it, in their order.
C26_Witness ==
    /\ lastSend.err = "queue is full"
    /\ Len(lastSend.before) = QueueCap
    /\ queue = lastSend.before
    /\ \A i \in 1..Len(queue) : queue[i] < lastSend.msg
    /\ \A i \in 1..(Len(queue) - 1) : queue[i] < queue[i + 1]

-----------------------------------------------------------------------------
(* C27: Process terminates for every number of messages and every worker   *)
(* count of at least 1, and returns one result per message, with each job  *)
(* ID 1..n exactly once.                                                   *)

\* The job IDs of the results collected so far.
CollectedIds == {results[i].JobID : i \in 1..Len(results)}

OneResultPerJob ==
    /\ Len(results) = jobs
    /\ CollectedIds = 1..jobs
    /\ \A i, j \in 1..Len(results) : results[i].JobID = results[j].JobID => i = j

C27_ProcessTerminates ==
    /\ <>(ppc = "done")
    /\ [](ppc = "done" => OneResultPerJob)

\* What does hold: a Process that returns has one result per job.
ReturnedResultsAreComplete == ppc = "done" => OneResultPerJob

\* What does hold: with at most five messages per worker Process returns.
FewJobsTerminate == jobs <= 5 * cp.workers => <>(ppc = "done")

\* The state Process does not leave: both channels are full, every worker
\* waits to send a result, and Process waits to submit the next job.
SubmitAndWorkersWait ==
    /\ ppc = "submit"
    /\ submitted < jobs
    /\ Len(jobQueue) = ChanCap(cp.workers)
    /\ Len(resultChan) = ChanCap(cp.workers)
    /\ \A w \in ProcWorkers : w <= cp.workers => cwpc[w] = "send"

-----------------------------------------------------------------------------
(* C28: Get never returns an entry whose expiration time has passed, and a *)
(* Get of a key before the TTL of its latest Set has elapsed returns the   *)
(* value that Set stored.                                                  *)

\* The latest Get came after a Set of its key and before that Set's TTL ran out.
GetWithinTtl ==
    /\ lastGet.key # ""
    /\ lastGet.latest # <<>>
    /\ lastGet.at - lastGet.latest[1].at < mc.ttl

C28_GetFreshAndLatest ==
    /\ lastGet.exists =>
        /\ lastGet.cached # <<>>
        /\ lastGet.at <= lastGet.cached[1].Expiration
        /\ lastGet.latest # <<>>
        /\ lastGet.cached[1].Segments = lastGet.latest[1].segments
        /\ lastGet.cached[1].Processed = lastGet.latest[1].at
    /\ ~lastGet.exists => lastGet.cached = <<>>
    /\ GetWithinTtl =>
        /\ lastGet.exists
        /\ lastGet.cached[1].Segments = lastGet.latest[1].segments

\* A Get some time after the latest Set of its key, and within the TTL,
\* returned the value of that Set.
C28_Witness ==
    /\ GetWithinTtl
    /\ lastGet.exists
    /\ lastGet.latest[1].at > 0
    /\ lastGet.at > lastGet.latest[1].at
    /\ lastGet.cached[1].Segments = 2

\* A Get after the expiration finds nothing.
GetAfterExpirationMisses ==
    (lastGet.key # "" /\ lastGet.latest # <<>>
        /\ lastGet.at - lastGet.latest[1].at > mc.ttl) => ~lastGet.exists

=============================================================================
